---- MODULE Spec2Model ----
(***************************************************************************)
(* Model of seekchat's tool-call pipeline: the recursion driver            *)
(* (sendMessageToAI and its completeHandler), the tool invocation          *)
(* orchestrator (handleToolCall), the streaming base adapter, the JSON     *)
(* repair utility and the stop-generation handler of the message hook.     *)
(*                                                                         *)
(* Text is modelled as a sequence of one-character strings; visible        *)
(* content is modelled as a sequence of tokens.                            *)
(***************************************************************************)
EXTENDS Integers, Sequences, FiniteSets, TLC

\* ------------------------------------------------------------------ bounds
\* content frames one streamed turn may carry
MaxDeltas == 1
\* tool calls one streamed turn may carry
MaxBatch == 2
\* tool-requesting turns the scripted provider may produce for one request
MaxToolTurns == 1
\* longest stored history handed to parseNeedSendMessage
MaxHistory == 5
\* largest context length a session is set to, besides the default
MaxContextLength == 3
\* most tool-call deltas a provider streams in the assembler scenarios
MaxFrames == 3
\* most items (a character or an escaped quote) in a string of the JSON texts
MaxText == 2
\* most data: lines in a response body of the stream scenarios
MaxLines == 3
\* most reads the response body of the stream scenarios is divided into
MaxChunks == 2
\* most frames in a stream of the Anthropic scenarios
MaxFragments == 2

\* ------------------------------------------------------------------ program constants
maxRecursionDepth == 50

\* ------------------------------------------------------------------ text helpers
Undefined == "undefined"

StartsWith(s, p) == Len(s) >= Len(p) /\ SubSeq(s, 1, Len(p)) = p

EndsWith(s, p) == Len(s) >= Len(p) /\ SubSeq(s, Len(s) - Len(p) + 1, Len(s)) = p

\* positions (1-based) at which p occurs in s
Occurrences(s, p) == {i \in 1..(Len(s) - Len(p) + 1) : SubSeq(s, i, i + Len(p) - 1) = p}

Includes(s, p) == Len(p) = 0 \/ Occurrences(s, p) # {}

Min(S) == CHOOSE x \in S : \A y \in S : x <= y

Max(S) == CHOOSE x \in S : \A y \in S : x >= y

\* String.prototype.indexOf / lastIndexOf, 0-based, -1 when absent
IndexOf(s, p) == IF Occurrences(s, p) = {} THEN -1 ELSE Min(Occurrences(s, p)) - 1

LastIndexOf(s, p) == IF Occurrences(s, p) = {} THEN -1 ELSE Max(Occurrences(s, p)) - 1

\* String.prototype.substring(a, b), 0-based, end exclusive
Substring(s, a, b) == SubSeq(s, a + 1, b)

\* String.prototype.trim over the whitespace of the modelled alphabet
IsWs(c) == c \in {" ", "\n"}

RECURSIVE TrimStart(_)
TrimStart(s) == IF Len(s) > 0 /\ IsWs(s[1]) THEN TrimStart(Tail(s)) ELSE s

RECURSIVE TrimEnd(_)
TrimEnd(s) == IF Len(s) > 0 /\ IsWs(s[Len(s)]) THEN TrimEnd(SubSeq(s, 1, Len(s) - 1)) ELSE s

Trim(s) == TrimEnd(TrimStart(s))

\* s.replace(/p/g, r) for a literal pattern p: leftmost matches, left to right
RECURSIVE ReplaceAll(_, _, _)
ReplaceAll(s, p, r) ==
  IF Len(s) = 0 THEN s
  ELSE IF StartsWith(s, p) THEN r \o ReplaceAll(SubSeq(s, Len(p) + 1, Len(s)), p, r)
  ELSE <<s[1]>> \o ReplaceAll(Tail(s), p, r)

\* the length of the longest prefix of s made of characters of the class C
RECURSIVE PrefixRun(_, _)
PrefixRun(s, C) == IF Len(s) > 0 /\ s[1] \in C THEN 1 + PrefixRun(Tail(s), C) ELSE 0

\* the length of the longest suffix of s made of characters of the class C
RECURSIVE SuffixRun(_, _)
SuffixRun(s, C) ==
  IF Len(s) > 0 /\ s[Len(s)] \in C THEN 1 + SuffixRun(SubSeq(s, 1, Len(s) - 1), C) ELSE 0

\* ------------------------------------------------------------------ JSON.parse
\* Characters of the modelled alphabet:  { } " \ : , ' ( ) < | > space newline
\* a b 1 t o l, BT for the backtick and FWBAR for the full-width bar.
\* JSON values are [t |-> "obj", v |-> members <<key, value>> in insertion order],
\* [t |-> "str", v |-> characters] and [t |-> "num", v |-> digits].
Digits == {"1"}

JsonFail == [ok |-> FALSE, v |-> [t |-> "none", v |-> <<>>], next |-> 0]

EmptyObject == [t |-> "obj", v |-> <<>>]

RECURSIVE SkipWs(_, _)
SkipWs(s, i) == IF i <= Len(s) /\ IsWs(s[i]) THEN SkipWs(s, i + 1) ELSE i

\* the characters a backslash may escape inside a JSON string, and what they denote
EscapeOf(c) ==
  CASE c = "\"" -> <<"\"">>
    [] c = "\\" -> <<"\\">>
    [] c = "b" -> <<"BS">>
    [] OTHER -> <<>>

\* s[i] is the first character after the opening quote
RECURSIVE ParseStringBody(_, _, _)
ParseStringBody(s, i, acc) ==
  IF i > Len(s) THEN JsonFail
  ELSE IF s[i] = "\"" THEN [ok |-> TRUE, v |-> [t |-> "str", v |-> acc], next |-> i + 1]
  ELSE IF s[i] = "\\" THEN
    IF i + 1 > Len(s) \/ EscapeOf(s[i + 1]) = <<>> THEN JsonFail
    ELSE ParseStringBody(s, i + 2, acc \o EscapeOf(s[i + 1]))
  ELSE IF s[i] = "\n" THEN JsonFail
  ELSE ParseStringBody(s, i + 1, Append(acc, s[i]))

ParseNumber(s, i) ==
  LET n == PrefixRun(SubSeq(s, i, Len(s)), Digits)
  IN [ok |-> TRUE, v |-> [t |-> "num", v |-> SubSeq(s, i, i + n - 1)], next |-> i + n]

RECURSIVE ParseValue(_, _)
RECURSIVE ParseMembers(_, _, _)

\* obj with the member key set to val: a repeated key keeps its place and takes
\* the last value, as in JavaScript
PutMember(obj, key, val) ==
  IF \E n \in 1..Len(obj) : obj[n][1] = key
  THEN [n \in 1..Len(obj) |-> IF obj[n][1] = key THEN <<key, val>> ELSE obj[n]]
  ELSE Append(obj, <<key, val>>)

\* s[i] is where a member (a key string) must start; obj holds the members so far
ParseMembers(s, i, obj) ==
  LET k == SkipWs(s, i)
  IN IF k > Len(s) \/ s[k] # "\"" THEN JsonFail
     ELSE LET key == ParseStringBody(s, k + 1, <<>>)
          IN IF ~key.ok THEN JsonFail
             ELSE LET c == SkipWs(s, key.next)
                  IN IF c > Len(s) \/ s[c] # ":" THEN JsonFail
                     ELSE LET val == ParseValue(s, c + 1)
                          IN IF ~val.ok THEN JsonFail
                             ELSE LET e == SkipWs(s, val.next)
                                      grown == PutMember(obj, key.v.v, val.v)
                                  IN IF e > Len(s) THEN JsonFail
                                     ELSE IF s[e] = "}" THEN
                                       [ok |-> TRUE, v |-> [t |-> "obj", v |-> grown], next |-> e + 1]
                                     ELSE IF s[e] = "," THEN ParseMembers(s, e + 1, grown)
                                     ELSE JsonFail

ParseValue(s, i) ==
  LET k == SkipWs(s, i)
  IN IF k > Len(s) THEN JsonFail
     ELSE IF s[k] = "{" THEN
       LET m == SkipWs(s, k + 1)
       IN IF m <= Len(s) /\ s[m] = "}" THEN [ok |-> TRUE, v |-> EmptyObject, next |-> m + 1]
          ELSE ParseMembers(s, k + 1, <<>>)
     ELSE IF s[k] = "\"" THEN ParseStringBody(s, k + 1, <<>>)
     ELSE IF s[k] \in Digits THEN ParseNumber(s, k)
     ELSE JsonFail

\* JSON.parse: ok = FALSE stands for the SyntaxError it throws
JsonParse(s) ==
  LET r == ParseValue(s, 1)
  IN IF r.ok /\ SkipWs(s, r.next) = Len(s) + 1 THEN [ok |-> TRUE, v |-> r.v]
     ELSE [ok |-> FALSE, v |-> JsonFail.v]

\* ------------------------------------------------------------------ JSON repair
Q == "\""

BS == "\\"

WordChars == {"a", "b", "t", "o", "l", "1"}

Bars == {"|", "FWBAR"}

\* the length of the match of /<[FWBAR|]tool[^>]*>/ in s, 0 when there is none
ToolTokenLen(s) ==
  LET starts == {p \in 1..Len(s) :
                   /\ p + 5 <= Len(s)
                   /\ s[p] = "<"
                   /\ s[p + 1] \in Bars
                   /\ SubSeq(s, p + 2, p + 5) = <<"t", "o", "o", "l">>
                   /\ \E q \in (p + 6)..Len(s) : s[q] = ">"}
  IN IF starts = {} THEN 0
     ELSE LET p == Min(starts)
              q == Min({x \in (p + 6)..Len(s) : s[x] = ">"})
          IN q - p + 1

HasToolToken(s) ==
  Includes(s, <<"<", "FWBAR", "t", "o", "o", "l">>) \/ Includes(s, <<"<", "|", "t", "o", "o", "l">>)

\* the length of the match of /"\}+$/ in s, 0 when there is none
ExtraEndLen(s) ==
  LET n == SuffixRun(s, {"}"})
  IN IF n >= 1 /\ Len(s) > n /\ s[Len(s) - n] = Q THEN n + 1 ELSE 0

NoParse == [ok |-> FALSE, v |-> JsonFail.v]

\* an attempt of a repair cascade: the text to parse, built only when its
\* condition holds
Attempt(cond, text) == [try |-> cond, text |-> IF cond THEN text ELSE <<>>]

\* the first attempt, in order, whose text JSON.parse accepts; a failed attempt is
\* caught and the next one is made
RECURSIVE FirstParse(_, _)
FirstParse(attempts, n) ==
  IF n > Len(attempts) THEN NoParse
  ELSE IF attempts[n].try /\ JsonParse(attempts[n].text).ok THEN JsonParse(attempts[n].text)
  ELSE FirstParse(attempts, n + 1)

\* cleanStr after the special token has been cut off
CutToolToken(jsonStr) ==
  IF HasToolToken(jsonStr) /\ ToolTokenLen(jsonStr) > 0
  THEN SubSeq(jsonStr, ToolTokenLen(jsonStr) + 1, Len(jsonStr))
  ELSE jsonStr

\* cleanStr after the extra quote and braces at its end have been removed
CutExtraEnd(cleanStr) ==
  IF /\ Includes(cleanStr, <<BS, Q>>)
     /\ ExtraEndLen(cleanStr) > 0
     /\ LastIndexOf(cleanStr, <<BS, Q>>) < Len(cleanStr) - ExtraEndLen(cleanStr)
  THEN Substring(cleanStr, 0, Len(cleanStr) - ExtraEndLen(cleanStr) + 1)
  ELSE cleanStr

\* the parses safeJsonParse attempts, in order: the unescaped text, the special
\* format returned by MCP tools, the cleaned text, and (in the catch block) the
\* original text without its last character
SafeAttempts(jsonStr, cleanStr) ==
  << Attempt(Includes(cleanStr, <<BS, Q>>) /\ StartsWith(cleanStr, <<"{", BS, Q>>),
             ReplaceAll(cleanStr, <<BS, Q>>, <<Q>>)),
     Attempt(Includes(cleanStr, <<BS, Q>>) /\ EndsWith(cleanStr, <<Q, "}">>),
             ReplaceAll(SubSeq(cleanStr, 1, Len(cleanStr) - 1), <<BS, Q>>, <<Q>>)),
     Attempt(TRUE, cleanStr),
     Attempt(EndsWith(jsonStr, <<Q, "}">>), SubSeq(jsonStr, 1, Len(jsonStr) - 1)) >>

\* the value a cascade returns: that of the parse that succeeded, else the default
Repaired(parse, defaultValue) ==
  IF parse.ok THEN [v |-> parse.v, fallback |-> FALSE, threw |-> FALSE]
  ELSE [v |-> defaultValue, fallback |-> TRUE, threw |-> FALSE]

\* safeJsonParse: jsonStr is a string; the result is [v |-> the value returned,
\* fallback |-> TRUE when every parse failed and defaultValue was returned,
\* threw |-> TRUE when the call throws: its try/catch leaves no such path]
safeJsonParse(jsonStr, defaultValue) ==
  IF Len(jsonStr) = 0 THEN [v |-> defaultValue, fallback |-> TRUE, threw |-> FALSE]
  ELSE Repaired(FirstParse(SafeAttempts(jsonStr, CutExtraEnd(CutToolToken(jsonStr))), 1),
                defaultValue)

\* three backticks; BT stands for the backtick character
Fence == <<"BT", "BT", "BT">>

\* the capture of /BTBTBT(?:\w*\n)?([\s\S]*?)BTBTBT/ in s: [found, text]
CodeBlock(s) ==
  LET opens == Occurrences(s, Fence)
  IN IF opens = {} THEN [found |-> FALSE, text |-> <<>>]
     ELSE LET p == Min(opens)
              after == p + 3
              w == PrefixRun(SubSeq(s, after, Len(s)), WordChars)
              start == IF after + w <= Len(s) /\ s[after + w] = "\n" THEN after + w + 1 ELSE after
              closes == {q \in opens : q >= start}
          IN IF closes = {} THEN [found |-> FALSE, text |-> <<>>]
             ELSE [found |-> TRUE, text |-> SubSeq(s, start, Min(closes) - 1)]

\* the capture of /^\s*\w+\s*\(([\s\S]*?)\)\s*$/ in s: [found, text]
FunctionCall(s) ==
  LET lead == PrefixRun(s, {" ", "\n"})
      w == PrefixRun(SubSeq(s, lead + 1, Len(s)), WordChars)
      gap == PrefixRun(SubSeq(s, lead + w + 1, Len(s)), {" ", "\n"})
      open == lead + w + gap + 1
      tail == SuffixRun(s, {" ", "\n"})
      close == Len(s) - tail
  IN IF w >= 1 /\ open <= Len(s) /\ s[open] = "(" /\ close > open /\ s[close] = ")"
     THEN [found |-> TRUE, text |-> SubSeq(s, open + 1, close - 1)]
     ELSE [found |-> FALSE, text |-> <<>>]

\* s.replace(/^"\s+"/, "")
StripQuoteSpaceQuote(s) ==
  LET n == IF Len(s) > 0 /\ s[1] = Q THEN PrefixRun(Tail(s), {" ", "\n"}) ELSE 0
  IN IF n >= 1 /\ n + 2 <= Len(s) /\ s[n + 2] = Q THEN SubSeq(s, n + 3, Len(s)) ELSE s

\* s.replace(/"}"+$/, "}")
FixQuotedEnd(s) ==
  LET n == SuffixRun(s, {Q})
  IN IF n >= 1 /\ Len(s) >= n + 2 /\ s[Len(s) - n] = "}" /\ s[Len(s) - n - 1] = Q
     THEN SubSeq(s, 1, Len(s) - n - 2) \o <<"}">>
     ELSE s

\* while (cleaned.endsWith('"}')) cleaned = cleaned.substring(0, cleaned.length - 1)
RECURSIVE DropExtraEnds(_)
DropExtraEnds(s) ==
  IF EndsWith(s, <<Q, "}">>) THEN DropExtraEnds(SubSeq(s, 1, Len(s) - 1)) ELSE s

\* cleaned.substring(cleaned.indexOf("{")) when cleaned contains but does not start with {
FromFirstBrace(s) ==
  IF ~StartsWith(s, <<"{">>) /\ Includes(s, <<"{">>)
  THEN SubSeq(s, IndexOf(s, <<"{">>) + 1, Len(s))
  ELSE s

\* cleaned.substring(0, lastIndexOf("}") + 1) when cleaned contains but does not end with }
ToLastBrace(s) ==
  IF ~EndsWith(s, <<"}">>) /\ Includes(s, <<"}">>)
  THEN Substring(s, 0, LastIndexOf(s, <<"}">>) + 1)
  ELSE s

\* paramStr after the code block and function call wrappers have been removed
Unwrap(raw, block) ==
  IF ~block.found THEN raw
  ELSE IF FunctionCall(Trim(block.text)).found THEN FunctionCall(Trim(block.text)).text
  ELSE Trim(block.text)

\* s.replace(/^["'\s]+/, "")
StripLeading(s) == SubSeq(s, PrefixRun(s, {Q, "'", " ", "\n"}) + 1, Len(s))

\* s.replace(/["'}]+$/, "")
StripTrailing(s) == SubSeq(s, 1, Len(s) - SuffixRun(s, {Q, "'", "}"}))

\* the text between the first { and the last } of paramStr
BraceCandidate(paramStr) ==
  Substring(paramStr, IndexOf(paramStr, <<"{">>), LastIndexOf(paramStr, <<"}">>) + 1)

HasBraceCandidate(paramStr) ==
  /\ IndexOf(paramStr, <<"{">>) # -1
  /\ LastIndexOf(paramStr, <<"}">>) # -1
  /\ IndexOf(paramStr, <<"{">>) < LastIndexOf(paramStr, <<"}">>)

Unescape(s) == ReplaceAll(s, <<BS, Q>>, <<Q>>)

\* the parses parseMCPToolParams attempts on paramStr, in order: the text between
\* the braces, the special format, multi-layer escaping, single-layer escaping
\* (two forms) and the text wrapped in quotes
ParamAttempts(paramStr) ==
  << Attempt(HasBraceCandidate(paramStr), Unescape(BraceCandidate(paramStr))),
     Attempt(StartsWith(paramStr, <<Q, " ", Q>>) \/ StartsWith(paramStr, <<Q, " ", "{">>),
             Unescape(FixQuotedEnd(StripQuoteSpaceQuote(paramStr)))),
     Attempt(Includes(paramStr, <<BS, BS, Q>>),
             Unescape(ReplaceAll(FromFirstBrace(StripTrailing(StripLeading(paramStr))),
                                 <<BS, BS, Q>>, <<BS, Q>>))),
     Attempt(/\ Includes(paramStr, <<BS, Q>>)
             /\ (EndsWith(paramStr, <<Q, "}">>) \/ EndsWith(paramStr, <<Q, "}", Q, "}">>)),
             Unescape(DropExtraEnds(paramStr))),
     Attempt(/\ Includes(paramStr, <<BS, Q>>)
             /\ ~(EndsWith(paramStr, <<Q, "}">>) \/ EndsWith(paramStr, <<Q, "}", Q, "}">>)),
             Unescape(ToLastBrace(FromFirstBrace(paramStr)))),
     Attempt(StartsWith(paramStr, <<Q>>) /\ EndsWith(paramStr, <<Q>>),
             ReplaceAll(Unescape(SubSeq(paramStr, 2, Len(paramStr) - 1)), <<BS, BS>>, <<BS>>)) >>

\* the cascade on the cleaned paramStr; the general method is the last resort
RepairCascade(paramStr, parse) ==
  IF parse.ok THEN Repaired(parse, EmptyObject) ELSE safeJsonParse(paramStr, EmptyObject)

\* parseMCPToolParams: the result is [v |-> the value returned, fallback |-> TRUE
\* when every heuristic failed and the default {} was returned, threw |-> TRUE
\* when the call throws]. Every attempt is caught, the last one by safeJsonParse.
parseMCPToolParams(raw) ==
  IF Len(raw) = 0 THEN [v |-> EmptyObject, fallback |-> TRUE, threw |-> FALSE]
  ELSE RepairCascade(StripLeading(Trim(Unwrap(raw, CodeBlock(raw)))),
                     FirstParse(ParamAttempts(StripLeading(Trim(Unwrap(raw, CodeBlock(raw))))), 1))

\* ------------------------------------------------------------------ request data
\* the tools of the active servers, as getAllActiveTools returns them
ActiveTools == <<[id |-> "calc", name |-> "Calculator", serverId |-> "s1"]>>

\* no server is active
NoTools == <<>>

\* what the tool registry can hold
Registries == {ActiveTools, NoTools}

\* formatMCPToolsForOpenAI: the function definitions sent to the provider
formatToolsForProvider(tools) ==
  [k \in DOMAIN tools |-> [type |-> "function", name |-> tools[k].id]]

\* follow-up options that take the tools from the registry again
RefetchedTools(optionTools, activeTools) == activeTools

\* followupOptions = {...options}: the tool list of the level is kept
FollowupTools(optionTools, activeTools) == optionTools

\* argument texts a streamed tool call may carry
ValidArgs == <<"{", Q, "a", Q, ":", "1", "}">>

GarbageArgs == <<"a", "b">>

\* a call of the catalog tool with arguments that parse
GoodCall == [type |-> "function", name |-> "calc", arguments |-> ValidArgs]

\* the shapes of tool call a provider may stream: a call of a catalog tool, one
\* with unparseable arguments, one of a tool the catalog lacks, and one whose
\* type the provider never sent
CallShapes ==
  { GoodCall,
    [type |-> "function", name |-> "calc", arguments |-> GarbageArgs],
    [type |-> "function", name |-> "ghost", arguments |-> ValidArgs],
    [type |-> "", name |-> "calc", arguments |-> ValidArgs] }

\* what mcpService.callTool may do: resolve with success true, resolve with
\* success false, or reject
ExecOutcomes == {"ok", "fail", "reject"}

\* the messages of the request: the list parseNeedSendMessage produced
UserTurn == [role |-> "user", content |-> <<"q">>, tool_calls |-> <<>>, tool_call_id |-> Undefined]

\* i18n texts, as tokens
MaxToolCallsReached == "chat.mcpTools.maxToolCallsReached"

UserTerminatedGeneration == "chat.userTerminatedGeneration"

ToolParameterParseFailed == "error.toolParameterParseFailed"

\* ------------------------------------------------------------------ errors
NoError == [name |-> "", message |-> <<>>]

AbortError == [name |-> "AbortError", message |-> <<"aborted">>]

FetchError == [name |-> "TypeError", message |-> <<"fetch failed">>]

HttpError == [name |-> "Error", message |-> <<"HTTP error">>]

ConfigError == [name |-> "Error", message |-> <<"settings.providerDisabled">>]

\* a catch block that wraps every error, a cancellation included
AdapterCatchWrapAll(error) ==
  [name |-> "Error", message |-> <<"API error: ">> \o error.message]

\* the catch block of the adapter: a cancellation passes as it is, any other
\* error is re-thrown as a new "<provider> API error"
AdapterCatch(error) ==
  IF error.name = "AbortError" THEN error
  ELSE [name |-> "Error", message |-> <<"API error: ">> \o error.message]

\* the catch block of sendMessageToAI: both branches re-throw the error caught
ServiceCatch(error) == IF error.name = "AbortError" THEN error ELSE error

\* ------------------------------------------------------------------ tool invocation
FindTool(tools, id) ==
  IF \E n \in 1..Len(tools) : tools[n].id = id
  THEN [found |-> TRUE, tool |-> tools[Min({n \in 1..Len(tools) : tools[n].id = id})]]
  ELSE [found |-> FALSE, tool |-> [id |-> Undefined, name |-> Undefined, serverId |-> Undefined]]

\* the object handleToolCall resolves with
ToolResult(success, toolName, result, error, message) ==
  [kind |-> "object", success |-> success, toolName |-> toolName, result |-> result,
   error |-> error, message |-> message]

\* a handleToolCall that reports the outcome of the call before it is made
StartWithOutcomeFirst(found, parsed) ==
     IF ~found.found
     THEN [step |-> "return", status |-> "error", tool |-> found.tool, args |-> EmptyObject,
           value |-> ToolResult(FALSE, Undefined, Undefined, "error.toolNotFound", Undefined)]
     ELSE IF parsed.threw
     THEN [step |-> "return", status |-> "none", tool |-> found.tool, args |-> EmptyObject,
           value |-> ToolResult(FALSE, Undefined, Undefined, Undefined, ToolParameterParseFailed)]
     ELSE [step |-> "call", status |-> "success", tool |-> found.tool, args |-> parsed.v,
           value |-> ToolResult(FALSE, Undefined, Undefined, Undefined, Undefined)]

\* handleToolCall up to its first suspension: either it is over (the tool is not in
\* the catalog, or the arguments did not parse), or mcpService.callTool is invoked.
\* step "return": value is what the call resolves with.
\* step "call": callTool(tool.serverId, tool.id, args) is to be awaited.
StartWith(found, parsed) ==
     IF ~found.found
     THEN [step |-> "return", status |-> "error", tool |-> found.tool, args |-> EmptyObject,
           value |-> ToolResult(FALSE, Undefined, Undefined, "error.toolNotFound", Undefined)]
     ELSE IF parsed.threw
     THEN [step |-> "return", status |-> "none", tool |-> found.tool, args |-> EmptyObject,
           value |-> ToolResult(FALSE, Undefined, Undefined, Undefined, ToolParameterParseFailed)]
     ELSE [step |-> "call", status |-> "running", tool |-> found.tool, args |-> parsed.v,
           value |-> ToolResult(FALSE, Undefined, Undefined, Undefined, Undefined)]

HandleToolCallStart(toolCall, tools) ==
  StartWith(FindTool(tools, toolCall.name),
            parseMCPToolParams(IF Len(toolCall.arguments) = 0 THEN <<"{", "}">>
                               ELSE toolCall.arguments))

\* a handleToolCall that does not look at result.success
HandleToolCallFinishUnchecked(tool, outcome) ==
  IF outcome = "reject"
  THEN [status |-> "error",
        value |-> ToolResult(FALSE, Undefined, Undefined, "executor rejected", Undefined)]
  ELSE [status |-> "success", value |-> ToolResult(TRUE, tool.name, "result", Undefined, Undefined)]

\* handleToolCall after callTool settled with the given outcome
HandleToolCallFinish(tool, outcome) ==
  CASE outcome = "ok" ->
         [status |-> "success", value |-> ToolResult(TRUE, tool.name, "result", Undefined, Undefined)]
    [] outcome = "fail" ->
         [status |-> "error",
          value |-> ToolResult(FALSE, Undefined, Undefined, "error.toolExecutionFailed", Undefined)]
    [] outcome = "reject" ->
         [status |-> "error",
          value |-> ToolResult(FALSE, Undefined, Undefined, "executor rejected", Undefined)]

\* ------------------------------------------------------------------ context truncation
\* default limit of getContextSettings
DefaultMaxMessages == 10

\* getContextSettings on a session whose contextLength is set: -1 means unlimited
getContextSettings(contextLength) ==
  IF contextLength = -1
  THEN [maxMessages |-> DefaultMaxMessages, noLimit |-> TRUE]
  ELSE [maxMessages |-> contextLength, noLimit |-> FALSE]

\* a stored message: text 0 stands for the empty content, a positive text for the
\* content of the message, which no other message has
StoredMessage(createdAt, role, status, text) ==
  [createdAt |-> createdAt, role |-> role, status |-> status, text |-> text]

\* list without its element at position k
RemoveAt(list, k) == SubSeq(list, 1, k - 1) \o SubSeq(list, k + 1, Len(list))

\* [...allMessage].sort((a, b) => new Date(a.createdAt) - new Date(b.createdAt)):
\* the sort is stable
RECURSIVE InsertByCreatedAt(_, _)
InsertByCreatedAt(sorted, msg) ==
  IF Len(sorted) = 0 THEN <<msg>>
  ELSE IF sorted[Len(sorted)].createdAt <= msg.createdAt THEN Append(sorted, msg)
  ELSE Append(InsertByCreatedAt(SubSeq(sorted, 1, Len(sorted) - 1), msg), sorted[Len(sorted)])

RECURSIVE SortByCreatedAt(_)
SortByCreatedAt(list) ==
  IF Len(list) = 0 THEN <<>>
  ELSE InsertByCreatedAt(SortByCreatedAt(SubSeq(list, 1, Len(list) - 1)), list[Len(list)])

\* a message is kept when its main content is not empty
HasMainContent(msg) == msg.text # 0

ValidMessages(sortedMessages) == SelectSeq(sortedMessages, HasMainContent)

\* the element pushed for a message: its role and its parsed content
SentTurn(msg) == [role |-> msg.role, content |-> msg.text]

\* position of the first assistant message after position i, 0 when there is none
NextAssistantIndex(validMessages, i) ==
  IF \E j \in (i + 1)..Len(validMessages) : validMessages[j].role = "assistant"
  THEN Min({j \in (i + 1)..Len(validMessages) : validMessages[j].role = "assistant"})
  ELSE 0

\* the while loop that pairs every user message with the next assistant message:
\* the pair is pushed unless the assistant message has status error; a user
\* message with no assistant message after it is pushed alone
RECURSIVE Alternating(_, _, _)
\* a pairing that pushes the pair whatever the status of the assistant message
PairFromAnyStatus(validMessages, i, acc, next) ==
  IF next # 0
  THEN Alternating(validMessages, next + 1,
                   acc \o <<SentTurn(validMessages[i]), SentTurn(validMessages[next])>>)
  ELSE Alternating(validMessages, i + 1, Append(acc, SentTurn(validMessages[i])))

PairFrom(validMessages, i, acc, next) ==
  IF next # 0
  THEN Alternating(validMessages, next + 1,
                   IF validMessages[next].status # "error"
                   THEN acc \o <<SentTurn(validMessages[i]), SentTurn(validMessages[next])>>
                   ELSE acc)
  ELSE Alternating(validMessages, i + 1, Append(acc, SentTurn(validMessages[i])))

Alternating(validMessages, i, acc) ==
  IF i > Len(validMessages) THEN acc
  ELSE IF validMessages[i].role = "user"
  THEN PairFrom(validMessages, i, acc, NextAssistantIndex(validMessages, i))
  ELSE Alternating(validMessages, i + 1, acc)

\* findIndex((msg) => msg.role === "user"), counted from 1; 0 when there is none
FirstUserIndex(list) ==
  IF \E k \in DOMAIN list : list[k].role = "user"
  THEN Min({k \in DOMAIN list : list[k].role = "user"})
  ELSE 0

\* position of the last user turn among the first n elements, 0 when there is none
LastUserIndex(list, n) ==
  IF \E k \in 1..n : list[k].role = "user"
  THEN Max({k \in 1..n : list[k].role = "user"})
  ELSE 0

\* ensure the first message is a user message
MoveFirstUserToFront(list) ==
  IF list[1].role # "user" /\ FirstUserIndex(list) > 1
  THEN <<list[FirstUserIndex(list)]>> \o RemoveAt(list, FirstUserIndex(list))
  ELSE list

\* ensure the last message is a user message: the search starts at the element
\* before the last one
MoveLastUserToEnd(list) ==
  IF Len(list) > 0 /\ list[Len(list)].role # "user" /\ LastUserIndex(list, Len(list) - 1) # 0
  THEN Append(RemoveAt(list, LastUserIndex(list, Len(list) - 1)),
              list[LastUserIndex(list, Len(list) - 1)])
  ELSE list

\* after the first user turn was moved to the beginning: remove one message when
\* the list exceeds the limit
DropSecondIfOver(list, maxMessages) ==
  IF Len(list) > maxMessages THEN RemoveAt(list, 2) ELSE list

\* the list after slice(-maxMessages), with its first user turn moved to the beginning
FrontUserAfterSlice(sliced, maxMessages) ==
  IF Len(sliced) > 0 /\ sliced[1].role # "user" /\ FirstUserIndex(sliced) > 1
  THEN DropSecondIfOver(<<sliced[FirstUserIndex(sliced)]>> \o RemoveAt(sliced, FirstUserIndex(sliced)),
                        maxMessages)
  ELSE sliced

\* a limit that keeps the oldest turns
KeepOldest(list, settings) ==
  IF ~settings.noLimit /\ settings.maxMessages > 0 /\ Len(list) > settings.maxMessages
  THEN SubSeq(list, 1, settings.maxMessages)
  ELSE list

\* apply message count limit
ApplyLimit(list, settings) ==
  IF ~settings.noLimit /\ settings.maxMessages > 0 /\ Len(list) > settings.maxMessages
  THEN FrontUserAfterSlice(SubSeq(list, Len(list) - settings.maxMessages + 1, Len(list)),
                           settings.maxMessages)
  ELSE list

OtherRole(role) == IF role = "user" THEN "assistant" ELSE "user"

\* the final loop: a message is kept when it has the expected role
RECURSIVE StrictAlternation(_, _, _, _)
StrictAlternation(list, i, expectedRole, acc) ==
  IF i > Len(list) THEN acc
  ELSE IF list[i].role = expectedRole
  THEN StrictAlternation(list, i + 1, OtherRole(expectedRole), Append(acc, list[i]))
  ELSE StrictAlternation(list, i + 1, expectedRole, acc)

\* a final check that adds nothing
WithoutLastUser(finalMessages, list) == finalMessages

\* if the last kept message is not a user message, the last user message of the
\* list is added
WithLastUser(finalMessages, list) ==
  IF /\ Len(finalMessages) > 0
     /\ finalMessages[Len(finalMessages)].role # "user"
     /\ LastUserIndex(list, Len(list)) # 0
  THEN Append(finalMessages, list[LastUserIndex(list, Len(list))])
  ELSE finalMessages

\* the end of parseNeedSendMessage: the special case of limit 1, else the final check
FinalMessages(list, maxMessages) ==
  IF maxMessages = 1 /\ FirstUserIndex(list) # 0
  THEN <<list[FirstUserIndex(list)]>>
  ELSE WithLastUser(StrictAlternation(list, 1, "user", <<>>), list)

FromAlternating(alternatingMessages, settings) ==
  IF Len(alternatingMessages) = 0 THEN <<>>
  ELSE FinalMessages(ApplyLimit(MoveLastUserToEnd(MoveFirstUserToFront(alternatingMessages)),
                                settings),
                     settings.maxMessages)

parseNeedSendMessage(allMessage, contextLength) ==
  IF Len(allMessage) = 0 THEN <<>>
  ELSE FromAlternating(Alternating(ValidMessages(SortByCreatedAt(allMessage)), 1, <<>>),
                       getContextSettings(contextLength))

\* ------------------------------------------------------------------ tool-call deltas
\* an absent or empty field of a delta: it is falsy
NoField == <<>>

\* an element of delta.tool_calls
Delta(index, id, type, name, arguments) ==
  [index |-> index, id |-> id, type |-> type, name |-> name, arguments |-> arguments]

\* position in the list of the tool call with the index, 0 when there is none
FindByIndex(toolCalls, index) ==
  IF \E k \in DOMAIN toolCalls : toolCalls[k].index = index
  THEN Min({k \in DOMAIN toolCalls : toolCalls[k].index = index})
  ELSE 0

\* the tool call created for a delta whose index is new
NewToolCall(delta) ==
  [index |-> delta.index, id |-> delta.id, type |-> delta.type, name |-> NoField,
   arguments |-> NoField]

\* an update that replaces the arguments by the fragment
ReplaceFields(existingToolCall, delta) ==
  [index |-> existingToolCall.index,
   id |-> IF delta.id # NoField THEN delta.id ELSE existingToolCall.id,
   type |-> IF delta.type # NoField THEN delta.type ELSE existingToolCall.type,
   name |-> IF delta.name # NoField THEN delta.name ELSE existingToolCall.name,
   arguments |-> IF delta.arguments # NoField THEN delta.arguments ELSE existingToolCall.arguments]

\* update id, type and function information of the tool call
UpdateFields(existingToolCall, delta) ==
  [index |-> existingToolCall.index,
   id |-> IF delta.id # NoField THEN delta.id ELSE existingToolCall.id,
   type |-> IF delta.type # NoField THEN delta.type ELSE existingToolCall.type,
   name |-> IF delta.name # NoField THEN delta.name ELSE existingToolCall.name,
   arguments |-> existingToolCall.arguments \o delta.arguments]

\* merge one delta into currentToolCalls
MergeDelta(toolCalls, delta) ==
  IF FindByIndex(toolCalls, delta.index) = 0
  THEN Append(toolCalls, UpdateFields(NewToolCall(delta), delta))
  ELSE [toolCalls EXCEPT ![FindByIndex(toolCalls, delta.index)] = UpdateFields(@, delta)]

\* ------------------------------------------------------------------ JSON.stringify
RECURSIVE EscapedText(_)
EscapedText(text) ==
  IF Len(text) = 0 THEN <<>>
  ELSE (IF Head(text) \in {Q, BS} THEN <<BS, Head(text)>> ELSE <<Head(text)>>)
         \o EscapedText(Tail(text))

RECURSIVE StringifyMembers(_)
JsonStringify(value) ==
  IF value.t = "obj" THEN <<"{">> \o StringifyMembers(value.v) \o <<"}">>
  ELSE IF value.t = "str" THEN <<Q>> \o EscapedText(value.v) \o <<Q>>
  ELSE value.v

\* the members of an object whose values are strings or numbers
StringifyMembers(members) ==
  IF Len(members) = 0 THEN <<>>
  ELSE <<Q>> \o EscapedText(Head(members)[1]) \o <<Q, ":">>
         \o (IF Head(members)[2].t = "str"
             THEN <<Q>> \o EscapedText(Head(members)[2].v) \o <<Q>>
             ELSE Head(members)[2].v)
         \o (IF Len(members) > 1 THEN <<",">> ELSE <<>>)
         \o StringifyMembers(Tail(members))

\* ------------------------------------------------------------------ the Anthropic stream processor
\* a frame of the Anthropic stream: text is delta.text, name and input are
\* delta.name and delta.input; an absent input has t = "none"
NoInput == [t |-> "none", v |-> <<>>]

AnthropicFrame(type, tool_call_id, name, input, text) ==
  [type |-> type, tool_call_id |-> tool_call_id, name |-> name, input |-> input, text |-> text]

\* inputStr after the special tokens were cleaned
CleanInput(inputStr) ==
  IF HasToolToken(inputStr) /\ ToolTokenLen(inputStr) > 0
  THEN SubSeq(inputStr, ToolTokenLen(inputStr) + 1, Len(inputStr))
  ELSE inputStr

\* toolCalls with the tool call of the id, created when there is none
WithToolCall(toolCalls, tool_call_id) ==
  IF \E k \in DOMAIN toolCalls : toolCalls[k].id = tool_call_id THEN toolCalls
  ELSE Append(toolCalls, [index |-> NoField, id |-> tool_call_id, type |-> "function",
                          name |-> <<>>, arguments |-> <<>>])

\* the update of the tool call by a tool_call_delta
UpdateToolCall(existingToolCall, data) ==
  [existingToolCall EXCEPT
     !.name = IF data.name # <<>> THEN data.name ELSE @,
     !.arguments = IF data.input.t = "obj" THEN JsonStringify(data.input)
                   ELSE IF data.input.t = "str" /\ data.input.v # <<>>
                        THEN @ \o CleanInput(data.input.v)
                        ELSE @]

\* streamProcessor of the Anthropic adapter
AnthropicStreamProcessor(data, text, toolCalls) ==
  IF data.type = "content_block_delta" /\ data.text # <<>>
  THEN [content |-> text \o data.text, toolCalls |-> toolCalls, hasUpdate |-> TRUE]
  ELSE IF data.type = "tool_call_delta"
  THEN [content |-> text,
        toolCalls |-> [k \in DOMAIN WithToolCall(toolCalls, data.tool_call_id) |->
                         IF WithToolCall(toolCalls, data.tool_call_id)[k].id = data.tool_call_id
                         THEN UpdateToolCall(WithToolCall(toolCalls, data.tool_call_id)[k], data)
                         ELSE WithToolCall(toolCalls, data.tool_call_id)[k]],
        hasUpdate |-> TRUE]
  ELSE [content |-> text, toolCalls |-> toolCalls, hasUpdate |-> FALSE]

\* ------------------------------------------------------------------ the Gemini stream processor
\* a frame of the Gemini stream: text is candidates[0].content.parts[0].text,
\* hasParts says whether the frame has candidates with content parts
GeminiFrame(hasParts, text) == [hasParts |-> hasParts, text |-> text]

\* streamProcessor of the Gemini adapter
GeminiStreamProcessor(data, text) ==
  IF data.hasParts /\ data.text # <<>>
  THEN [content |-> text \o data.text, hasUpdate |-> TRUE]
  ELSE [content |-> text, hasUpdate |-> FALSE]

\* ------------------------------------------------------------------ the stream reader
\* the prefix of a data line
DataPrefix == <<"d", "a", "t", "a", ":", " ">>

\* the line that ends the stream
DoneLine == DataPrefix \o <<"[", "D", "O", "N", "E", "]">>

\* chunk.split("\n")
RECURSIVE Lines(_)
Lines(text) ==
  IF IndexOf(text, <<"\n">>) = -1 THEN <<text>>
  ELSE <<SubSeq(text, 1, IndexOf(text, <<"\n">>))>>
         \o Lines(SubSeq(text, IndexOf(text, <<"\n">>) + 2, Len(text)))

\* the filter on the lines of a chunk
KeptLine(line) == Trim(line) # <<>> /\ Trim(line) # DoneLine

\* a frame's payload is written here as an object with the members of
\* data.choices[0].delta: c for content, g for the arguments fragment of the
\* tool call with index 0
MemberOf(value, key) ==
  IF value.t = "obj" /\ \E n \in DOMAIN value.v : value.v[n][1] = key /\ value.v[n][2].t = "str"
  THEN value.v[CHOOSE n \in DOMAIN value.v : value.v[n][1] = key][2].v
  ELSE <<>>

\* the default processing of a parsed frame: acc holds content, toolCalls and
\* the number of onProgress calls
ProcessFrame(acc, data) ==
  [content |-> acc.content \o MemberOf(data, <<"c">>),
   toolCalls |-> IF MemberOf(data, <<"g">>) # <<>>
                 THEN MergeDelta(acc.toolCalls,
                                 Delta(0, NoField, NoField, NoField, MemberOf(data, <<"g">>)))
                 ELSE acc.toolCalls,
   updates |-> IF MemberOf(data, <<"c">>) # <<>> \/ MemberOf(data, <<"g">>) # <<>>
               THEN acc.updates + 1 ELSE acc.updates]

\* a processor that starts over when a payload cannot be parsed
ProcessPayloadOrReset(acc, parse) ==
  IF parse.ok THEN ProcessFrame(acc, parse.v)
  ELSE [content |-> <<>>, toolCalls |-> <<>>, updates |-> acc.updates]

\* try { JSON.parse(line.slice(6)), process } catch: a payload that cannot be
\* parsed changes nothing
ProcessPayload(acc, parse) == IF parse.ok THEN ProcessFrame(acc, parse.v) ELSE acc

\* one line of a chunk
ProcessLine(acc, line) ==
  IF StartsWith(line, DataPrefix)
  THEN ProcessPayload(acc, JsonParse(SubSeq(line, Len(DataPrefix) + 1, Len(line))))
  ELSE acc

\* the for loop over the kept lines
RECURSIVE ProcessLines(_, _)
ProcessLines(acc, lines) ==
  IF Len(lines) = 0 THEN acc
  ELSE ProcessLines(ProcessLine(acc, Head(lines)), Tail(lines))

\* one read: decode, split, filter, process
ProcessChunk(acc, chunk) == ProcessLines(acc, SelectSeq(Lines(chunk), KeptLine))

\* ------------------------------------------------------------------ state
VARIABLES
  script,            \* what the provider and the executor do in this request
  providerEnabled,   \* providerService knows the provider and it is enabled
  pc,                \* where the request is suspended
  depth,             \* options._recursionDepth || 1 of the level in progress
  messages,          \* the message list of the level in progress
  updatedMessages,   \* the list completeHandler extends for the next level
  content,           \* the adapter's accumulated content
  currentToolCalls,  \* the adapter's assembled tool calls
  toolIdx,           \* position of the for loop over completeData.toolCalls
  toolCallResults,   \* the results completeHandler of this level has recorded
  wrapped,           \* the toolCallResults captured by the wrappedComplete of each earlier level
  signal,            \* options.signal.aborted
  inFlight,          \* ids of the callTool invocations that have not settled
  promise,           \* the promise the top-level sendMessageToAI returned
  unhandled,         \* rejections of completeHandler promises, which nobody awaits
  uiMsg,             \* the assistant message in the hook's local state
  dbMsg,             \* the assistant message as persisted
  generating,        \* currentAIMessageId is set
  adapterCalls,      \* history: number of adapter invocations
  handlerCalls,      \* history: number of completeHandler invocations
  execLog,           \* history: the callTool invocations, in order
  callLog,           \* history: how each handled tool call ended
  completed,         \* history: the data passed to the caller's onComplete
  thrown,            \* history: the errors thrown out of sendMessageToAI
  stopInfo,          \* history: where the request was when the user stopped it
  notifications,     \* history: the calls of the caller's onProgress and onComplete
  allMessages,       \* the stored messages of the session, the new user message included
  contextLength,     \* the session's contextLength setting
  messagesToSend,    \* what parseNeedSendMessage returned for this request
  frames,            \* the tool-call deltas the provider has still to stream
  received,          \* history: the tool-call deltas the adapter has read
  registry,          \* the tools of the servers that are active now
  mcpTools,          \* options.mcpTools of the level in progress
  offered,           \* history: the tools each adapter invocation was given
  chunks,            \* what reader.read() yields for the response body, read by read
  nextChunk          \* position of the next read in chunks

vars == <<script, providerEnabled, pc, depth, messages, updatedMessages, content,
          currentToolCalls, toolIdx, toolCallResults, wrapped, signal, inFlight, promise,
          unhandled, uiMsg, dbMsg, generating, adapterCalls, handlerCalls, execLog, callLog,
          completed, thrown, stopInfo, notifications, allMessages, contextLength,
          messagesToSend, frames, received, registry, mcpTools, offered,
          chunks, nextChunk>>

\* the response body being read
reading == <<chunks, nextChunk>>

\* the stream of tool-call deltas
stream == <<frames, received>>

\* the session the request is made in
session == <<allMessages, contextLength>>

\* a request's script: the tool call its provider streams first in a turn, and
\* what the executor answers. The scripted provider streams up to MaxDeltas
\* content deltas and up to MaxBatch tool calls in a turn, in at most MaxToolTurns
\* turns; the calls after the first are calls of the catalog tool. The synthetic
\* provider streams the one tool call in every turn.
Scripts ==
  { [kind |-> k, call |-> c, outcome |-> o] :
      k \in {"scripted", "synthetic"}, c \in CallShapes, o \in ExecOutcomes }

AIMessage(status, text, results) == [status |-> status, content |-> text, toolCallResults |-> results]

InitRequest ==
  /\ pc = "idle"
  /\ depth = 1
  /\ messages = <<UserTurn>>
  /\ updatedMessages = <<>>
  /\ content = <<>>
  /\ currentToolCalls = <<>>
  /\ toolIdx = 1
  /\ toolCallResults = <<>>
  /\ wrapped = <<>>
  /\ signal = FALSE
  /\ inFlight = {}
  /\ promise = [state |-> "none", error |-> NoError]
  /\ unhandled = <<>>
  /\ uiMsg = AIMessage("none", <<>>, <<>>)
  /\ dbMsg = AIMessage("none", <<>>, <<>>)
  /\ generating = FALSE
  /\ adapterCalls = 0
  /\ handlerCalls = 0
  /\ execLog = <<>>
  /\ callLog = <<>>
  /\ completed = <<>>
  /\ thrown = <<>>
  /\ stopInfo = [at |-> "none", content |-> <<>>]
  /\ notifications = <<>>
  /\ messagesToSend = <<>>
  /\ received = <<>>
  /\ mcpTools = NoTools
  /\ offered = <<>>
  /\ nextChunk = 1

\* the stored messages of a session: its messages in the order they were
\* created, each a user turn (U), an assistant turn that succeeded (A), one that
\* failed or was stopped (E), or one whose content was never written (P)
MessageKinds == {"U", "A", "E", "P"}

MessageOfKind(createdAt, kind) ==
  StoredMessage(createdAt,
                IF kind = "U" THEN "user" ELSE "assistant",
                IF kind = "E" THEN "error" ELSE IF kind = "P" THEN "pending" ELSE "success",
                IF kind = "P" THEN 0 ELSE createdAt)

History(kinds) == [k \in DOMAIN kinds |-> MessageOfKind(k, kinds[k])]

Reverse(list) == [k \in DOMAIN list |-> list[Len(list) + 1 - k]]

\* the kinds of the messages before the new user message, which is the last one
KindSequences ==
  UNION { { Append(earlier, "U") : earlier \in [1..n -> MessageKinds] } : n \in 0..(MaxHistory - 1) }

\* the store hands the messages over oldest first or newest first
Histories ==
  { History(kinds) : kinds \in KindSequences } \cup { Reverse(History(kinds)) : kinds \in KindSequences }

ContextLengths == {-1, DefaultMaxMessages} \cup 1..MaxContextLength

\* the session of the tool-call scenarios: a first message, no limit
FirstMessage == History(<<"U">>)

Init ==
  /\ InitRequest
  /\ script \in Scripts
  /\ providerEnabled \in BOOLEAN
  /\ allMessages = FirstMessage
  /\ contextLength = -1
  /\ frames = <<>>
  /\ registry \in Registries
  /\ chunks = <<>>

\* a request in a session with any history and any context length
InitContext ==
  /\ InitRequest
  /\ script = [kind |-> "scripted", call |-> GoodCall, outcome |-> "ok"]
  /\ providerEnabled \in BOOLEAN
  /\ allMessages \in Histories
  /\ contextLength \in ContextLengths
  /\ frames = <<>>
  /\ registry = ActiveTools
  /\ chunks = <<>>

\* the deltas of the assembler scenarios: a delta that opens a tool call with
\* its id, type and name, a delta with a fragment of the arguments, and a delta
\* with both
Foo == <<"f", "o", "o">>
Bar == <<"b", "a", "r">>
FragmentOpen == <<"{", Q, "x", Q, ":">>
FragmentClose == <<"1", "}">>
Indexes == {0, 1}

Deltas ==
  { Delta(index, <<"call", index>>, <<"function">>, name, NoField) : index \in Indexes, name \in {Foo, Bar} }
    \cup { Delta(index, NoField, NoField, NoField, fragment) :
             index \in Indexes, fragment \in {FragmentOpen, FragmentClose} }
    \cup { Delta(index, <<"call", index>>, <<"function">>, Foo, FragmentOpen) : index \in Indexes }

FrameSequences == UNION { [1..n -> Deltas] : n \in 1..MaxFrames }

\* a request whose provider streams any sequence of tool-call deltas
InitAssembler ==
  /\ InitRequest
  /\ script = [kind |-> "scripted", call |-> GoodCall, outcome |-> "ok"]
  /\ providerEnabled = TRUE
  /\ allMessages = FirstMessage
  /\ contextLength = -1
  /\ frames \in FrameSequences
  /\ registry = ActiveTools
  /\ chunks = <<>>

\* texts that are valid JSON, built by the grammar: a number, a string of up to
\* MaxText items, the empty object, an object with one member
StringItems == {<<"a">>, <<"b">>, <<BS, Q>>}

RECURSIVE StringBodies(_)
StringBodies(n) ==
  IF n = 0 THEN {<<>>}
  ELSE StringBodies(n - 1) \cup {body \o item : body \in StringBodies(n - 1), item \in StringItems}

ScalarTexts == {<<"1">>} \cup {<<Q>> \o body \o <<Q>> : body \in StringBodies(MaxText)}

ObjectTexts ==
  {<<"{", "}">>} \cup {<<"{", Q, "a", Q, ":">> \o value \o <<"}">> : value \in ScalarTexts}

JsonTexts == ScalarTexts \cup ObjectTexts

\* the object text {"a":"b"} with every quote escaped, followed by a stray "}
EscapedStrayEnd == <<"{", BS, Q, "a", BS, Q, ":", BS, Q, "b", BS, Q, "}", Q, "}">>

\* a request whose provider streams a call of the catalog tool with any of the texts
InitRepair ==
  /\ InitRequest
  /\ script \in { [kind |-> "scripted",
                   call |-> [type |-> "function", name |-> "calc", arguments |-> text],
                   outcome |-> "ok"] : text \in JsonTexts \cup {EscapedStrayEnd} }
  /\ providerEnabled = TRUE
  /\ allMessages = FirstMessage
  /\ contextLength = -1
  /\ frames = <<>>
  /\ registry = ActiveTools
  /\ chunks = <<>>

\* the string fragments of tool input a frame may carry: plain text, then
\* possibly a control token, terminated or not, then possibly more text
PlainTexts == UNION { [1..n -> {"a"}] : n \in 0..MaxText }
ControlTokens ==
  { <<>>,
    <<"<", "|", "t", "o", "o", "l", ">">>,
    <<"<", "FWBAR", "t", "o", "o", "l", "a", ">">>,
    <<"<", "|", "t", "o", "o", "l">> }
InputFragments ==
  { before \o token \o after : before \in PlainTexts, token \in ControlTokens,
                               after \in {<<>>, <<"a">>} }

ToolUse == <<"toolu", 1>>

AnthropicFrames ==
  { AnthropicFrame("tool_call_delta", ToolUse, <<>>, [t |-> "str", v |-> fragment], <<>>) :
      fragment \in InputFragments }
    \cup { AnthropicFrame("tool_call_delta", ToolUse, Foo, NoInput, <<>>),
           AnthropicFrame("tool_call_delta", ToolUse, Foo, EmptyObject, <<>>),
           AnthropicFrame("content_block_delta", NoField, <<>>, NoInput, <<"a">>),
           AnthropicFrame("message_stop", NoField, <<>>, NoInput, <<>>) }

\* a request whose Anthropic provider streams up to MaxFragments frames
InitAnthropic ==
  /\ InitRequest
  /\ script = [kind |-> "scripted", call |-> GoodCall, outcome |-> "ok"]
  /\ providerEnabled = TRUE
  /\ allMessages = FirstMessage
  /\ contextLength = -1
  /\ frames \in UNION { [1..n -> AnthropicFrames] : n \in 1..MaxFragments }
  /\ registry = NoTools
  /\ chunks = <<>>

\* the texts a Gemini frame may carry
CandidateTexts == UNION { [1..n -> {"a", "b"}] : n \in 0..MaxText }

GeminiFrames == {GeminiFrame(TRUE, text) : text \in CandidateTexts} \cup {GeminiFrame(FALSE, <<>>)}

\* a request whose Gemini provider streams up to MaxFrames frames
InitGemini ==
  /\ InitRequest
  /\ script = [kind |-> "scripted", call |-> GoodCall, outcome |-> "ok"]
  /\ providerEnabled = TRUE
  /\ allMessages = FirstMessage
  /\ contextLength = -1
  /\ frames \in UNION { [1..n -> GeminiFrames] : n \in 1..MaxFrames }
  /\ registry = NoTools
  /\ chunks = <<>>

\* the payloads of the stream scenarios: a content delta, an arguments
\* fragment, and a payload that is not JSON
ContentFrame == <<"{", Q, "c", Q, ":", Q, "a", Q, "}">>
ArgumentsFrame == <<"{", Q, "g", Q, ":", Q, "1", Q, "}">>
MalformedFrame == <<"{", Q, "c", Q>>
Payloads == {ContentFrame, ArgumentsFrame, MalformedFrame}

\* the response body for a sequence of payloads: one data line each
RECURSIVE BodyOf(_)
BodyOf(payloads) ==
  IF Len(payloads) = 0 THEN <<>>
  ELSE DataPrefix \o Head(payloads) \o <<"\n">> \o BodyOf(Tail(payloads))

\* where the network may cut the body: inside the prefix of a line, inside its
\* payload, and at its end
RECURSIVE CutPoints(_, _)
CutPoints(payloads, start) ==
  IF Len(payloads) = 0 THEN {}
  ELSE {start + 3, start + Len(DataPrefix) + 3}
         \cup (IF Len(payloads) > 1 THEN {start + Len(DataPrefix) + Len(Head(payloads)) + 1} ELSE {})
         \cup CutPoints(Tail(payloads), start + Len(DataPrefix) + Len(Head(payloads)) + 1)

\* the text cut after each of the positions
RECURSIVE SplitAt(_, _)
SplitAt(text, cuts) ==
  IF cuts = {} THEN <<text>>
  ELSE <<SubSeq(text, 1, Min(cuts))>>
         \o SplitAt(SubSeq(text, Min(cuts) + 1, Len(text)), {c - Min(cuts) : c \in cuts \ {Min(cuts)}})

PayloadSequences == UNION { [1..n -> Payloads] : n \in 1..MaxLines }

Chunkings ==
  UNION { { SplitAt(BodyOf(payloads), cuts) :
              cuts \in {c \in SUBSET CutPoints(payloads, 0) : Cardinality(c) < MaxChunks} } :
          payloads \in PayloadSequences }

\* a request whose response body arrives in any of the chunkings
InitStream ==
  /\ InitRequest
  /\ script = [kind |-> "scripted", call |-> GoodCall, outcome |-> "ok"]
  /\ providerEnabled = TRUE
  /\ allMessages = FirstMessage
  /\ contextLength = -1
  /\ frames = <<>>
  /\ registry = NoTools
  /\ chunks \in Chunkings

\* ------------------------------------------------------------------ the hook's callbacks
\* the status the error callback gives a failed turn
FailedStatus == "error"

\* the stream update callback: shown, not persisted
UiOnProgress(text, results) == AIMessage("receiving", text, results)

\* the error callback: a cancellation is ignored, it was handled by handleStopGeneration
UiOnError(msg, error) ==
  IF error.name = "AbortError" THEN msg ELSE AIMessage(FailedStatus, error.message, <<>>)

\* the complete callback
UiOnComplete(data) == AIMessage("success", data.content, data.toolCallResults)

\* messageService.sendMessage stands between the hook and sendMessageToAI: it
\* hands the hook's callbacks on, and passes a rejection of sendMessageToAI to the
\* error callback
SendMessageOnError(msg, error) == UiOnError(msg, error)

\* what handleStopGeneration writes to the store and to the local state
TerminationMessage == AIMessage("error", <<UserTerminatedGeneration>>, <<>>)
\* ------------------------------------------------------------------ the recursion driver
\* a guard that lets the level at the maximum depth recurse once more
hasExceededMaxDepth(recursionDepth) == recursionDepth > maxRecursionDepth

\* const hasReachedMaxDepth = recursionDepth >= maxRecursionDepth
hasReachedMaxDepth(recursionDepth) == recursionDepth >= maxRecursionDepth

\* the suffix completeHandler appends to the content when it stops the recursion
MaxToolCallsSuffix == <<"\n\n[", MaxToolCallsReached, "]">>

\* a wrappedComplete that hands the final data on without the results of its level
WrappedCompleteLatest(stack, finalData) == finalData

\* wrappedComplete of every earlier level, innermost first: each puts the results
\* its level recorded in front of those the final data carries
RECURSIVE WrappedComplete(_, _)
WrappedComplete(stack, finalData) ==
  IF Len(stack) = 0 THEN finalData
  ELSE WrappedComplete(SubSeq(stack, 1, Len(stack) - 1),
                       [finalData EXCEPT !.toolCallResults = stack[Len(stack)] \o @])

\* the assistant turn completeHandler appends before it runs the tools
AssistantTurn(text, calls) ==
  [role |-> "assistant", content |-> text, tool_calls |-> calls, tool_call_id |-> Undefined]

\* the tool turn appended for a tool call: content is JSON.stringify(toolResult)
ToolTurn(toolCall, toolResult) ==
  [role |-> "tool", content |-> <<"JSON", toolResult>>, tool_calls |-> <<>>,
   tool_call_id |-> toolCall.id]

\* the entry completeHandler records for a tool call
ResultEntry(toolCall, toolResult) ==
  [id |-> toolCall.id,
   tool_id |-> toolCall.name,
   tool_name |-> IF FindTool(mcpTools, toolCall.name).found
                 THEN FindTool(mcpTools, toolCall.name).tool.name
                 ELSE toolCall.name,
   parameters |-> parseMCPToolParams(toolCall.arguments).v,
   result |-> toolResult,
   status |-> IF toolResult.success THEN "success" ELSE "error"]

\* a follow-up that sends only the most recent turns of the extended list
RecentMessages(list) == SubSeq(list, 2, Len(list))

\* the list completeHandler hands to sendMessageToAI for the next level
FollowupMessages(list) == list

\* a loop that starts the calls without awaiting them
NoAwaitToolCall(i) == [pc |-> "loop", toolIdx |-> i + 1]

\* where the driver goes once callTool has been invoked for the tool call at
\* position i: it awaits the call before it looks at the next one
AwaitToolCall(i) == [pc |-> "exec", toolIdx |-> i]

\* a call of the caller's onProgress: kind says what it reports, id is the tool
\* call a toolCallStatus is about
Progress(kind, id) == [type |-> "progress", kind |-> kind, id |-> id]

\* the call of the caller's onComplete
Completion == [type |-> "complete", kind |-> "final", id |-> <<>>]

\* a completeHandler that also completes when the turn carries tool calls
ProcessingCallbacksWithCompletion == <<Completion, Progress("processing", <<>>)>>

\* what completeHandler calls before it runs the tools of a turn
ProcessingCallbacks == <<Progress("processing", <<>>)>>

\* the callbacks a step calls, in order
Notify(calls) == notifications' = notifications \o calls

\* an error thrown out of sendMessageToAI at the level in progress. The top-level
\* call rejects the caller's promise. A follow-up call was made by a
\* completeHandler the adapter did not await: its rejection is unhandled.
Raise(error, cause) ==
  /\ pc' = "failed"
  /\ thrown' = Append(thrown, [depth |-> depth, cause |-> cause, error |-> error])
  /\ IF depth = 1
     THEN /\ promise' = [state |-> "rejected", error |-> error]
          /\ uiMsg' = SendMessageOnError(uiMsg, error)
          /\ dbMsg' = SendMessageOnError(dbMsg, error)
          /\ generating' = IF error.name = "AbortError" THEN generating ELSE FALSE
          /\ UNCHANGED unhandled
     ELSE /\ unhandled' = Append(unhandled, error)
          /\ UNCHANGED <<promise, uiMsg, dbMsg, generating>>

\* handleSendMessage and the top-level sendMessageToAI, up to the adapter's fetch
StartRequest ==
  /\ pc = "idle"
  /\ IF providerEnabled
     THEN /\ pc' = "fetch"
          /\ adapterCalls' = adapterCalls + 1
          /\ offered' = Append(offered, formatToolsForProvider(registry))
          /\ promise' = [state |-> "pending", error |-> NoError]
          /\ uiMsg' = AIMessage("pending", <<>>, <<>>)
          /\ dbMsg' = AIMessage("pending", <<>>, <<>>)
          /\ generating' = TRUE
          /\ UNCHANGED <<thrown, unhandled>>
     ELSE /\ pc' = "failed"
          /\ thrown' = Append(thrown, [depth |-> depth, cause |-> "config", error |-> ConfigError])
          /\ promise' = [state |-> "rejected", error |-> ConfigError]
          /\ uiMsg' = SendMessageOnError(AIMessage("pending", <<>>, <<>>), ConfigError)
          /\ dbMsg' = SendMessageOnError(AIMessage("pending", <<>>, <<>>), ConfigError)
          /\ generating' = FALSE
          /\ UNCHANGED <<adapterCalls, unhandled, offered>>
  /\ messagesToSend' = parseNeedSendMessage(allMessages, contextLength)
  /\ mcpTools' = registry
  /\ UNCHANGED notifications
  /\ UNCHANGED <<session, stream, reading, registry, script, providerEnabled, depth, messages,
                 updatedMessages, content,
                 currentToolCalls, toolIdx, toolCallResults, wrapped, signal, inFlight,
                 handlerCalls, execLog, callLog, completed, stopInfo>>

\* fetch resolves with a 2xx response: the adapter starts reading the stream
FetchResponds ==
  /\ pc = "fetch"
  /\ ~signal
  /\ pc' = "read"
  /\ UNCHANGED notifications
  /\ UNCHANGED <<session, stream, reading, registry, mcpTools, offered, messagesToSend, script,
                 providerEnabled, depth, messages, updatedMessages, content,
                 currentToolCalls, toolIdx, toolCallResults, wrapped, signal, inFlight,
                 promise, unhandled, uiMsg, dbMsg, generating, adapterCalls, handlerCalls,
                 execLog, callLog, completed, thrown, stopInfo>>

\* fetch rejects, or resolves with a non-2xx response
FetchFails ==
  /\ pc = "fetch"
  /\ ~signal
  /\ \E error \in {FetchError, HttpError} : Raise(ServiceCatch(AdapterCatch(error)), "failure")
  /\ UNCHANGED notifications
  /\ UNCHANGED <<session, stream, reading, registry, mcpTools, offered, messagesToSend, script,
                 providerEnabled, depth, messages, updatedMessages, content,
                 currentToolCalls, toolIdx, toolCallResults, wrapped, signal, inFlight,
                 adapterCalls, handlerCalls, execLog, callLog, completed, stopInfo>>

\* reader.read() rejects while the stream is being read
ReadFails ==
  /\ pc = "read"
  /\ ~signal
  /\ Raise(ServiceCatch(AdapterCatch(FetchError)), "failure")
  /\ UNCHANGED notifications
  /\ UNCHANGED <<session, stream, reading, registry, mcpTools, offered, messagesToSend, script,
                 providerEnabled, depth, messages, updatedMessages, content,
                 currentToolCalls, toolIdx, toolCallResults, wrapped, signal, inFlight,
                 adapterCalls, handlerCalls, execLog, callLog, completed, stopInfo>>

\* the signal is aborted: fetch, or the pending read, rejects with an AbortError
Aborted ==
  /\ pc \in {"fetch", "read"}
  /\ signal
  /\ Raise(ServiceCatch(AdapterCatch(AbortError)), "abort")
  /\ UNCHANGED notifications
  /\ UNCHANGED <<session, stream, reading, registry, mcpTools, offered, messagesToSend, script,
                 providerEnabled, depth, messages, updatedMessages, content,
                 currentToolCalls, toolIdx, toolCallResults, wrapped, signal, inFlight,
                 adapterCalls, handlerCalls, execLog, callLog, completed, stopInfo>>

\* a data: frame with a content delta
ReadContent ==
  /\ pc = "read"
  /\ ~signal
  /\ script.kind = "scripted"
  /\ Len(content) < MaxDeltas
  /\ content' = Append(content, "t")
  /\ uiMsg' = UiOnProgress(content', <<>>)
  /\ Notify(<<Progress("delta", <<>>)>>)
  /\ UNCHANGED <<session, stream, reading, registry, mcpTools, offered, messagesToSend, script,
                 providerEnabled, pc, depth, messages, updatedMessages,
                 currentToolCalls, toolIdx, toolCallResults, wrapped, signal, inFlight,
                 promise, unhandled, dbMsg, generating, adapterCalls, handlerCalls, execLog,
                 callLog, completed, thrown, stopInfo>>

\* the tool call the provider streams at the given index of the turn's list
StreamedCall(index) ==
  [index |-> index,
   id |-> <<"call", depth, index>>,
   type |-> IF index = 0 THEN script.call.type ELSE GoodCall.type,
   name |-> IF index = 0 THEN script.call.name ELSE GoodCall.name,
   arguments |-> IF index = 0 THEN script.call.arguments ELSE GoodCall.arguments]

\* a data: frame with the delta of one new tool call
ReadToolCall ==
  /\ pc = "read"
  /\ ~signal
  /\ IF script.kind = "synthetic"
     THEN Len(currentToolCalls) = 0
     ELSE Len(currentToolCalls) < MaxBatch /\ depth <= MaxToolTurns
  /\ currentToolCalls' = Append(currentToolCalls, StreamedCall(Len(currentToolCalls)))
  /\ uiMsg' = UiOnProgress(content, <<>>)
  /\ Notify(<<Progress("delta", <<>>)>>)
  /\ UNCHANGED <<session, stream, reading, registry, mcpTools, offered, messagesToSend, script,
                 providerEnabled, pc, depth, messages, updatedMessages, content,
                 toolIdx, toolCallResults, wrapped, signal, inFlight, promise, unhandled,
                 dbMsg, generating, adapterCalls, handlerCalls, execLog, callLog, completed,
                 thrown, stopInfo>>

\* the stream ends and carries no tool call: the adapter calls onComplete, and
\* completeHandler hands the data to the caller's onComplete through the
\* wrappedComplete of the earlier levels
ReadDoneFinal ==
  /\ pc = "read"
  /\ ~signal
  /\ nextChunk > Len(chunks)
  /\ script.kind = "scripted"
  /\ Len(currentToolCalls) = 0
  /\ LET completeData == [content |-> content, toolCalls |-> currentToolCalls,
                          toolCallResults |-> <<>>]
         finalData == WrappedComplete(wrapped, completeData)
     IN /\ completed' = Append(completed, finalData)
        /\ uiMsg' = UiOnComplete(finalData)
        /\ dbMsg' = UiOnComplete(finalData)
  /\ generating' = FALSE
  /\ handlerCalls' = handlerCalls + 1
  /\ pc' = "done"
  /\ promise' = IF depth = 1 THEN [state |-> "resolved", error |-> NoError] ELSE promise
  /\ Notify(<<Completion>>)
  /\ UNCHANGED <<session, stream, reading, registry, mcpTools, offered, messagesToSend, script,
                 providerEnabled, depth, messages, updatedMessages, content,
                 currentToolCalls, toolIdx, toolCallResults, wrapped, signal, inFlight,
                 unhandled, adapterCalls, execLog, callLog, thrown, stopInfo>>

\* the stream ends and carries tool calls: the adapter calls onComplete without
\* awaiting it and returns, so the promise of a top-level call resolves here;
\* completeHandler appends the assistant turn and enters its loop
ReadDoneTools ==
  /\ pc = "read"
  /\ ~signal
  /\ nextChunk > Len(chunks)
  /\ Len(currentToolCalls) > 0
  /\ updatedMessages' = Append(messages, AssistantTurn(content, currentToolCalls))
  /\ toolCallResults' = <<>>
  /\ toolIdx' = 1
  /\ uiMsg' = UiOnProgress(content, <<>>)
  /\ handlerCalls' = handlerCalls + 1
  /\ pc' = "loop"
  /\ promise' = IF depth = 1 THEN [state |-> "resolved", error |-> NoError] ELSE promise
  /\ Notify(ProcessingCallbacks)
  /\ UNCHANGED <<session, stream, reading, registry, mcpTools, offered, messagesToSend, script,
                 providerEnabled, depth, messages, content, currentToolCalls,
                 wrapped, signal, inFlight, unhandled, dbMsg, generating, adapterCalls,
                 execLog, callLog, completed, thrown, stopInfo>>

\* the loop meets a tool call that is not of type "function": it is passed over
LoopSkip ==
  /\ pc = "loop"
  /\ toolIdx <= Len(currentToolCalls)
  /\ currentToolCalls[toolIdx].type # "function"
  /\ toolIdx' = toolIdx + 1
  /\ UNCHANGED notifications
  /\ UNCHANGED <<session, stream, reading, registry, mcpTools, offered, messagesToSend, script,
                 providerEnabled, pc, depth, messages, updatedMessages, content,
                 currentToolCalls, toolCallResults, wrapped, signal, inFlight, promise,
                 unhandled, uiMsg, dbMsg, generating, adapterCalls, handlerCalls, execLog,
                 callLog, completed, thrown, stopInfo>>

\* a driver that records the result and appends no tool turn
RecordWithoutTurn(toolCall, toolResult) ==
  /\ toolCallResults' = Append(toolCallResults, ResultEntry(toolCall, toolResult))
  /\ UNCHANGED updatedMessages

\* the driver records the result of a tool call and appends its tool turn
Record(toolCall, toolResult) ==
  /\ toolCallResults' = Append(toolCallResults, ResultEntry(toolCall, toolResult))
  /\ updatedMessages' = Append(updatedMessages, ToolTurn(toolCall, toolResult))

\* handleToolCall ends without calling the executor
ReturnLocally(toolCall, start) ==
  /\ start.step = "return"
  /\ Record(toolCall, start.value)
  /\ uiMsg' = IF start.status = "error" THEN UiOnProgress(<<>>, <<>>) ELSE uiMsg
  /\ Notify(IF start.status = "error" THEN <<Progress("error", toolCall.id)>> ELSE <<>>)
  /\ callLog' = Append(callLog, [depth |-> depth, index |-> toolIdx, id |-> toolCall.id,
                                 cause |-> "local"])

LoopReturn ==
  /\ pc = "loop"
  /\ toolIdx <= Len(currentToolCalls)
  /\ currentToolCalls[toolIdx].type = "function"
  /\ ReturnLocally(currentToolCalls[toolIdx],
                   HandleToolCallStart(currentToolCalls[toolIdx], mcpTools))
  /\ toolIdx' = toolIdx + 1
  /\ UNCHANGED <<session, stream, reading, registry, mcpTools, offered, messagesToSend, script,
                 providerEnabled, pc, depth, messages, content, currentToolCalls,
                 wrapped, signal, inFlight, promise, unhandled, dbMsg, generating,
                 adapterCalls, handlerCalls, execLog, completed, thrown, stopInfo>>

\* handleToolCall notifies "running" and invokes mcpService.callTool
InvokeExecutor(toolCall, start) ==
  /\ start.step = "call"
  /\ execLog' = Append(execLog, [depth |-> depth, index |-> toolIdx, id |-> toolCall.id,
                                 serverId |-> start.tool.serverId,
                                 toolId |-> start.tool.id,
                                 arguments |-> toolCall.arguments,
                                 parameters |-> start.args])
  /\ inFlight' = inFlight \cup {toolCall.id}
  /\ uiMsg' = UiOnProgress(<<>>, <<>>)
  /\ Notify(<<Progress(start.status, toolCall.id)>>)

LoopCallTool ==
  /\ pc = "loop"
  /\ toolIdx <= Len(currentToolCalls)
  /\ currentToolCalls[toolIdx].type = "function"
  /\ InvokeExecutor(currentToolCalls[toolIdx],
                    HandleToolCallStart(currentToolCalls[toolIdx], mcpTools))
  /\ pc' = AwaitToolCall(toolIdx).pc
  /\ toolIdx' = AwaitToolCall(toolIdx).toolIdx
  /\ UNCHANGED <<session, stream, reading, registry, mcpTools, offered, messagesToSend, script,
                 providerEnabled, depth, messages, updatedMessages, content,
                 currentToolCalls, toolCallResults, wrapped, signal, promise, unhandled,
                 dbMsg, generating, adapterCalls, handlerCalls, callLog, completed, thrown,
                 stopInfo>>

\* callTool settles: handleToolCall notifies the outcome and returns its result;
\* the driver records it and appends the tool turn
ExecReturns ==
  /\ pc = "exec"
  /\ \E outcome \in ExecOutcomes :
       /\ outcome = script.outcome
       /\ Record(currentToolCalls[toolIdx],
                 HandleToolCallFinish(FindTool(mcpTools, currentToolCalls[toolIdx].name).tool,
                                      outcome).value)
       /\ inFlight' = inFlight \ {currentToolCalls[toolIdx].id}
       /\ Notify(<<Progress(HandleToolCallFinish(FindTool(mcpTools,
                                                          currentToolCalls[toolIdx].name).tool,
                                                 outcome).status,
                            currentToolCalls[toolIdx].id)>>)
       /\ callLog' = Append(callLog, [depth |-> depth, index |-> toolIdx,
                                      id |-> currentToolCalls[toolIdx].id, cause |-> outcome])
  /\ uiMsg' = UiOnProgress(<<>>, <<>>)
  /\ toolIdx' = toolIdx + 1
  /\ pc' = "loop"
  /\ UNCHANGED <<session, stream, reading, registry, mcpTools, offered, messagesToSend, script,
                 providerEnabled, depth, messages, content, currentToolCalls,
                 wrapped, signal, promise, unhandled, dbMsg, generating, adapterCalls,
                 handlerCalls, execLog, completed, thrown, stopInfo>>

\* the loop is over below the maximum depth: completeHandler calls sendMessageToAI
\* with the extended list, and the adapter is invoked for the next level
LoopEndRecurse ==
  /\ pc = "loop"
  /\ toolIdx > Len(currentToolCalls)
  /\ ~hasReachedMaxDepth(depth)
  /\ wrapped' = Append(wrapped, toolCallResults)
  /\ messages' = FollowupMessages(updatedMessages)
  /\ depth' = depth + 1
  /\ adapterCalls' = adapterCalls + 1
  /\ mcpTools' = FollowupTools(mcpTools, registry)
  /\ offered' = Append(offered, formatToolsForProvider(mcpTools'))
  /\ content' = <<>>
  /\ currentToolCalls' = <<>>
  /\ toolCallResults' = <<>>
  /\ toolIdx' = 1
  /\ uiMsg' = UiOnProgress(content, toolCallResults)
  /\ pc' = "fetch"
  /\ Notify(<<Progress("processed", <<>>)>>)
  /\ UNCHANGED <<session, stream, reading, registry, messagesToSend, script, providerEnabled,
                 updatedMessages, signal, inFlight, promise,
                 unhandled, dbMsg, generating, handlerCalls, execLog, callLog, completed,
                 thrown, stopInfo>>

\* the loop is over at the maximum depth: completeHandler calls onComplete with
\* the content extended by the marker and does not call sendMessageToAI again
LoopEndMaxDepth ==
  /\ pc = "loop"
  /\ toolIdx > Len(currentToolCalls)
  /\ hasReachedMaxDepth(depth)
  /\ LET finalResult == [content |-> content \o MaxToolCallsSuffix,
                         toolCalls |-> currentToolCalls,
                         toolCallResults |-> toolCallResults]
         finalData == WrappedComplete(wrapped, finalResult)
     IN /\ completed' = Append(completed, finalData)
        /\ uiMsg' = UiOnComplete(finalData)
        /\ dbMsg' = UiOnComplete(finalData)
  /\ generating' = FALSE
  /\ pc' = "done"
  /\ Notify(<<Progress("processed", <<>>), Completion>>)
  /\ UNCHANGED <<session, stream, reading, registry, mcpTools, offered, messagesToSend, script,
                 providerEnabled, depth, messages, updatedMessages, content,
                 currentToolCalls, toolIdx, toolCallResults, wrapped, signal, inFlight,
                 promise, unhandled, adapterCalls, handlerCalls, execLog, callLog, thrown,
                 stopInfo>>

\* handleStopGeneration: the user stops the message that is being generated. It
\* runs between tasks, when the request is suspended on the network or on a tool.
handleStopGeneration ==
  /\ generating
  /\ pc \in {"fetch", "read", "exec", "failed"}
  /\ signal' = TRUE
  /\ dbMsg' = TerminationMessage
  /\ uiMsg' = TerminationMessage
  /\ generating' = FALSE
  /\ stopInfo' = [at |-> pc, content |-> content]
  /\ UNCHANGED notifications
  /\ UNCHANGED <<session, stream, reading, registry, mcpTools, offered, messagesToSend, script,
                 providerEnabled, pc, depth, messages, updatedMessages, content,
                 currentToolCalls, toolIdx, toolCallResults, wrapped, inFlight, promise,
                 unhandled, adapterCalls, handlerCalls, execLog, callLog, completed, thrown>>

\* a server is started or stopped while the request is suspended on the network
\* or on a tool
RegistryChanges ==
  /\ pc \in {"fetch", "read", "exec"}
  /\ registry' \in Registries \ {registry}
  /\ UNCHANGED <<session, stream, reading, mcpTools, offered, messagesToSend, script,
                 providerEnabled, pc, depth, messages, updatedMessages, content,
                 currentToolCalls, toolIdx, toolCallResults, wrapped, signal, inFlight,
                 promise, unhandled, uiMsg, dbMsg, generating, adapterCalls, handlerCalls,
                 execLog, callLog, completed, thrown, stopInfo, notifications>>

\* reader.read() yields the next chunk of the body: its lines are processed
ReadChunk ==
  /\ pc = "read"
  /\ ~signal
  /\ nextChunk <= Len(chunks)
  /\ LET acc == ProcessChunk([content |-> content, toolCalls |-> currentToolCalls, updates |-> 0],
                             chunks[nextChunk])
     IN /\ content' = acc.content
        /\ currentToolCalls' = acc.toolCalls
        /\ uiMsg' = IF acc.updates > 0 THEN UiOnProgress(acc.content, <<>>) ELSE uiMsg
        /\ Notify([k \in 1..acc.updates |-> Progress("delta", <<>>)])
  /\ nextChunk' = nextChunk + 1
  /\ UNCHANGED <<session, stream, chunks, registry, mcpTools, offered, messagesToSend, script,
                 providerEnabled, pc, depth, messages, updatedMessages, toolIdx,
                 toolCallResults, wrapped, signal, inFlight, promise, unhandled, dbMsg,
                 generating, adapterCalls, handlerCalls, execLog, callLog, completed, thrown,
                 stopInfo>>

\* a data: frame whose delta carries tool_calls: each is merged into currentToolCalls
ReadToolCallDelta ==
  /\ pc = "read"
  /\ ~signal
  /\ Len(frames) > 0
  /\ currentToolCalls' = MergeDelta(currentToolCalls, Head(frames))
  /\ frames' = Tail(frames)
  /\ received' = Append(received, Head(frames))
  /\ uiMsg' = UiOnProgress(content, <<>>)
  /\ Notify(<<Progress("delta", <<>>)>>)
  /\ UNCHANGED <<session, reading, registry, mcpTools, offered, messagesToSend, script,
                 providerEnabled, pc, depth, messages, updatedMessages, content, toolIdx, toolCallResults, wrapped, signal,
                 inFlight, promise, unhandled, dbMsg, generating, adapterCalls,
                 handlerCalls, execLog, callLog, completed, thrown, stopInfo>>

\* a data: frame of the Anthropic stream is handed to the stream processor
ReadAnthropicFrame ==
  /\ pc = "read"
  /\ ~signal
  /\ Len(frames) > 0
  /\ content' = AnthropicStreamProcessor(Head(frames), content, currentToolCalls).content
  /\ currentToolCalls' = AnthropicStreamProcessor(Head(frames), content, currentToolCalls).toolCalls
  /\ frames' = Tail(frames)
  /\ received' = Append(received, Head(frames))
  /\ IF AnthropicStreamProcessor(Head(frames), content, currentToolCalls).hasUpdate
     THEN uiMsg' = UiOnProgress(content', <<>>) /\ Notify(<<Progress("delta", <<>>)>>)
     ELSE UNCHANGED <<uiMsg, notifications>>
  /\ UNCHANGED <<session, reading, registry, mcpTools, offered, messagesToSend, script,
                 providerEnabled, pc, depth, messages, updatedMessages, toolIdx,
                 toolCallResults, wrapped, signal, inFlight, promise, unhandled, dbMsg,
                 generating, adapterCalls, handlerCalls, execLog, callLog, completed, thrown,
                 stopInfo>>

\* a data: frame of the Gemini stream is handed to the stream processor
ReadGeminiFrame ==
  /\ pc = "read"
  /\ ~signal
  /\ Len(frames) > 0
  /\ content' = GeminiStreamProcessor(Head(frames), content).content
  /\ frames' = Tail(frames)
  /\ received' = Append(received, Head(frames))
  /\ IF GeminiStreamProcessor(Head(frames), content).hasUpdate
     THEN uiMsg' = UiOnProgress(content', <<>>) /\ Notify(<<Progress("delta", <<>>)>>)
     ELSE UNCHANGED <<uiMsg, notifications>>
  /\ UNCHANGED <<session, reading, registry, mcpTools, offered, messagesToSend, script,
                 providerEnabled, pc, depth, messages, updatedMessages, currentToolCalls,
                 toolIdx, toolCallResults, wrapped, signal, inFlight, promise, unhandled,
                 dbMsg, generating, adapterCalls, handlerCalls, execLog, callLog, completed,
                 thrown, stopInfo>>

Next ==
  \/ StartRequest
  \/ FetchResponds
  \/ FetchFails
  \/ ReadFails
  \/ Aborted
  \/ ReadContent
  \/ ReadToolCall
  \/ ReadDoneFinal
  \/ ReadDoneTools
  \/ LoopSkip
  \/ LoopReturn
  \/ LoopCallTool
  \/ ExecReturns
  \/ LoopEndRecurse
  \/ LoopEndMaxDepth
  \/ handleStopGeneration
  \/ RegistryChanges

Spec == Init /\ [][Next]_vars

\* handleSendMessage in every session: the list it prepares for the provider
ContextSpec == InitContext /\ [][StartRequest]_vars

\* the adapter reading a stream of tool-call deltas
NextAssembler ==
  \/ StartRequest
  \/ FetchResponds
  \/ ReadToolCallDelta

AssemblerSpec == InitAssembler /\ [][NextAssembler]_vars

\* the Anthropic adapter reading its stream
NextAnthropic ==
  \/ StartRequest
  \/ FetchResponds
  \/ ReadAnthropicFrame

AnthropicSpec == InitAnthropic /\ [][NextAnthropic]_vars

\* the Gemini adapter reading its stream
NextGemini ==
  \/ StartRequest
  \/ FetchResponds
  \/ ReadGeminiFrame

GeminiSpec == InitGemini /\ [][NextGemini]_vars

\* the adapter reading a response body to its end
NextStream ==
  \/ StartRequest
  \/ FetchResponds
  \/ ReadChunk
  \/ ReadDoneFinal
  \/ ReadDoneTools

StreamSpec == InitStream /\ [][NextStream]_vars

\* a request up to the invocation of the executor with the parsed arguments
NextRepair ==
  \/ StartRequest
  \/ FetchResponds
  \/ ReadToolCall
  \/ ReadDoneTools
  \/ LoopCallTool

RepairSpec == InitRepair /\ [][NextRepair]_vars

\* ------------------------------------------------------------------ properties
\* the request is over and its last turn still carried tool calls, so every turn did
EveryTurnCalledTools == pc = "done" /\ completed[Len(completed)].toolCalls # <<>>

\* C1: when every model turn completes with a tool call, the adapter is invoked
\* exactly 50 times, never a 51st time, and the content passed to the caller's
\* onComplete ends with the max-tool-calls marker
C1_DepthCap ==
  /\ adapterCalls <= maxRecursionDepth
  /\ EveryTurnCalledTools =>
       /\ adapterCalls = maxRecursionDepth
       /\ handlerCalls = maxRecursionDepth
       /\ Len(completed) = 1
       /\ EndsWith(completed[1].content, MaxToolCallsSuffix)

C1_Witness ==
  /\ EveryTurnCalledTools
  /\ adapterCalls = 50
  /\ depth = 50
  /\ EndsWith(completed[1].content, MaxToolCallsSuffix)

\* C2: a non-cancellation error of the adapter, at the first level or at a
\* follow-up level, reaches the caller of the top-level sendMessageToAI: the
\* promise that caller holds is rejected with it
C2_ErrorReachesCaller ==
  \A i \in DOMAIN thrown :
    thrown[i].cause = "failure" =>
      /\ promise.state = "rejected"
      /\ promise.error = thrown[i].error

\* the follow-up call failed and the caller's promise had resolved before
C2_Lost ==
  /\ pc = "failed"
  /\ Len(thrown) = 1
  /\ thrown[1].cause = "failure"
  /\ thrown[1].depth = 2
  /\ promise.state = "resolved"
  /\ unhandled = <<thrown[1].error>>

\* C3: once the signal has fired while a tool invocation was in flight, no
\* further tool invocation is started and the adapter is not invoked again
C3_StopHaltsBatch ==
  [][(signal /\ stopInfo.at = "exec") =>
       (execLog' = execLog /\ adapterCalls' = adapterCalls)]_vars

\* C4: an abort of an in-flight streaming exchange is thrown as the original
\* AbortError, not wrapped as an API error; the caller of the top-level call
\* gets that very error, and onComplete is not invoked
C4_AbortPropagates ==
  \A i \in DOMAIN thrown :
    thrown[i].cause = "abort" =>
      /\ thrown[i].error = AbortError
      /\ thrown[i].depth = 1 => promise = [state |-> "rejected", error |-> AbortError]
      /\ completed = <<>>

C4_Witness ==
  /\ stopInfo.at = "read"
  /\ pc = "failed"
  /\ thrown = <<[depth |-> 1, cause |-> "abort", error |-> AbortError]>>
  /\ promise.state = "rejected"
  /\ promise.error.name = "AbortError"
  /\ completed = <<>>

\* C5: when the user stops generation after content has been streamed, the
\* finalized assistant message still contains the content accumulated so far
C5_StopKeepsContent ==
  (stopInfo.at = "read" /\ stopInfo.content # <<>> /\ pc = "failed") =>
    Includes(dbMsg.content, stopInfo.content)

\* C6: a turn the user cancelled is never written with the status of failed turns
C6_CancelledNotFailed ==
  (stopInfo.at # "none" /\ pc = "failed") => dbMsg.status # FailedStatus

\* C7: the tool calls of a batch run one at a time, in the order of the assembled
\* list: a call starts only after the one before it has returned, and no two
\* executor invocations are in flight at once
C7_Sequential ==
  /\ Cardinality(inFlight) <= 1
  /\ pc = "exec" => inFlight = {currentToolCalls[toolIdx].id}
  /\ pc # "exec" => inFlight = {}
  /\ \A i \in DOMAIN execLog :
       /\ i < Len(execLog) =>
            /\ \E k \in DOMAIN callLog : callLog[k].id = execLog[i].id
            /\ \/ execLog[i].depth < execLog[i + 1].depth
               \/ /\ execLog[i].depth = execLog[i + 1].depth
                  /\ execLog[i].index < execLog[i + 1].index

C7_Witness ==
  /\ Len(execLog) = 2
  /\ execLog[1].depth = execLog[2].depth
  /\ execLog[1].index = 1
  /\ execLog[2].index = 2
  /\ inFlight = {execLog[2].id}

\* a handled tool call that failed: the tool is not in the catalog, or the
\* executor answered success false, or it rejected
Failed(entry) == entry.cause \in {"local", "fail", "reject"}

\* every failed tool call of the batch in progress has a recorded result and a
\* tool turn that say so
FailuresRecorded ==
  \A k \in DOMAIN callLog :
    (callLog[k].depth = depth /\ Failed(callLog[k])) =>
      /\ \E n \in DOMAIN toolCallResults :
           /\ toolCallResults[n].id = callLog[k].id
           /\ toolCallResults[n].status = "error"
           /\ toolCallResults[n].result.kind = "object"
           /\ toolCallResults[n].result.success = FALSE
      /\ \E m \in DOMAIN updatedMessages :
           /\ updatedMessages[m].role = "tool"
           /\ updatedMessages[m].tool_call_id = callLog[k].id
           /\ updatedMessages[m].content[2].success = FALSE
           /\ updatedMessages[m].content[2].error # Undefined

\* the loop over a batch is over and a tool call of the batch failed
BatchOverWithFailure ==
  /\ pc = "loop"
  /\ toolIdx > Len(currentToolCalls)
  /\ \E k \in DOMAIN callLog : callLog[k].depth = depth /\ Failed(callLog[k])

\* C8 as stated: a tool call that failed is recorded as an error result with its
\* tool turn, and after its batch the model is invoked again
C8_AlwaysReinvoked ==
  [][FailuresRecorded' /\ (BatchOverWithFailure => adapterCalls' = adapterCalls + 1)]_vars

\* C8: a tool call that failed is recorded as an error result with its tool turn,
\* handleToolCall does not throw, and after its batch the model is invoked again
\* unless the recursion depth has reached the maximum: then the request completes
\* with the max-tool-calls marker
C8_FailedToolCall ==
  [][/\ FailuresRecorded'
     /\ BatchOverWithFailure =>
          IF depth < maxRecursionDepth
          THEN adapterCalls' = adapterCalls + 1 /\ pc' = "fetch" /\ messages' = updatedMessages
          ELSE /\ adapterCalls' = adapterCalls
               /\ pc' = "done"
               /\ EndsWith(completed'[1].content, MaxToolCallsSuffix)]_vars

C8_Witness ==
  /\ pc = "fetch"
  /\ depth = 2
  /\ adapterCalls = 2
  /\ \E k \in DOMAIN callLog : callLog[k].depth = 1 /\ Failed(callLog[k])
  /\ \E m \in DOMAIN messages : messages[m].role = "tool" /\ messages[m].content[2].success = FALSE

\* C9: a tool call whose arguments cannot be repaired into JSON never reaches
\* the executor: every executor invocation carries arguments that parsed
C9_NoInventedArguments ==
  \A i \in DOMAIN execLog : ~parseMCPToolParams(execLog[i].arguments).fallback

\* the executor was invoked with {} because GarbageArgs did not parse
C9_Invented ==
  /\ Len(execLog) = 1
  /\ execLog[1].arguments = GarbageArgs
  /\ execLog[1].parameters = EmptyObject

\* the first turn carried one tool call that the executor answered with success,
\* and the second turn carried none
OneToolExchange ==
  /\ pc = "done"
  /\ depth = 2
  /\ Len(callLog) = 1
  /\ callLog[1].cause = "ok"
  /\ Len(messages[2].tool_calls) = 1

\* C10: in that exchange the executor is invoked once and the model twice, the
\* second invocation receives the user turn, the assistant turn with its tool
\* call and the tool result, and the exchange completes with the content of the
\* second turn: 4 turns
C10_OneToolScenario ==
  OneToolExchange =>
    /\ Len(execLog) = 1
    /\ adapterCalls = 2
    /\ Len(messages) = 3
    /\ messages[1] = UserTurn
    /\ messages[2].role = "assistant"
    /\ Len(messages[2].tool_calls) = 1
    /\ messages[2].tool_calls[1].id = execLog[1].id
    /\ messages[3].role = "tool"
    /\ messages[3].tool_call_id = execLog[1].id
    /\ messages[3].content[2].success = TRUE
    /\ Len(completed) = 1
    /\ completed[1].content = content
    /\ completed[1].toolCalls = <<>>
    /\ Len(completed[1].toolCallResults) = 1
    /\ completed[1].toolCallResults[1].status = "success"
    /\ Len(messages) + Len(completed) = 4

C10_Witness ==
  /\ OneToolExchange
  /\ Len(execLog) = 1
  /\ adapterCalls = 2
  /\ Len(messages) = 3
  /\ completed[1].content = <<"t">>

\* the positions of the calls of onComplete among the callbacks
Completions == {n \in DOMAIN notifications : notifications[n].type = "complete"}

\* C11: the caller's onComplete is invoked at most once whatever the number of
\* levels, exactly once when the request concludes, and no onProgress follows it
C11_CompleteOnce ==
  /\ Cardinality(Completions) <= 1
  /\ Cardinality(Completions) = Len(completed)
  /\ pc = "done" => Cardinality(Completions) = 1
  /\ Completions # {} => Completions = {Len(notifications)}

C11_Witness ==
  /\ pc = "done"
  /\ depth = 2
  /\ Len(notifications) > 3
  /\ Completions = {Len(notifications)}
  /\ \A n \in 1..(Len(notifications) - 1) : notifications[n].type = "progress"


\* the name of the streamed tool call with the id
NameOfCall(id) == IF id[3] = 0 THEN script.call.name ELSE GoodCall.name

\* the ids of the tools the first adapter invocation was given
OfferedFirst == {offered[1][k].name : k \in DOMAIN offered[1]}

\* C18: every recursion level of a request gives the provider the tools of the
\* same catalog, the one fetched before the first model invocation, and resolves
\* its tool calls against it, whatever the registry holds in the meantime
C18_OneCatalog ==
  /\ Len(offered) = adapterCalls
  /\ \A k \in DOMAIN offered : offered[k] = offered[1]
  /\ pc \notin {"idle", "failed"} => offered[1] = formatToolsForProvider(mcpTools)
  /\ \A k \in DOMAIN execLog : execLog[k].toolId \in OfferedFirst
  /\ \A k \in DOMAIN callLog :
       callLog[k].cause = "local" <=> NameOfCall(callLog[k].id) \notin OfferedFirst

\* at the second level a tool is resolved that the registry no longer holds
C18_Witness ==
  /\ Len(offered) >= 2
  /\ registry = NoTools
  /\ pc = "exec"
  /\ depth = 2
  /\ execLog[Len(execLog)].depth = 2
  /\ execLog[Len(execLog)].toolId = "calc"

\* position of the assistant turn the previous level appended to the list
LastAssistantTurn == Max({k \in DOMAIN messages : messages[k].role = "assistant"})

\* C21: the list sent to a follow-up model invocation holds, directly after the
\* assistant turn that carries the tool calls, one tool turn for every tool
\* call of that turn, in the same order, each with the id of its tool call,
\* which is not empty
C21_ToolTurnPerCall ==
  depth >= 2 =>
    /\ Len(messages) = LastAssistantTurn + Len(messages[LastAssistantTurn].tool_calls)
    /\ \A k \in DOMAIN messages[LastAssistantTurn].tool_calls :
         /\ LastAssistantTurn + k <= Len(messages)
         /\ messages[LastAssistantTurn + k].role = "tool"
         /\ messages[LastAssistantTurn + k].tool_call_id
              = messages[LastAssistantTurn].tool_calls[k].id
         /\ messages[LastAssistantTurn].tool_calls[k].id # <<>>

\* the follow-up invocation is sent an assistant turn whose tool call has no tool turn
C21_CallWithoutToolTurn ==
  /\ depth = 2
  /\ pc = "fetch"
  /\ Len(messages) = 2
  /\ messages[2].role = "assistant"
  /\ Len(messages[2].tool_calls) = 1
  /\ messages[2].tool_calls[1].type # "function"

\* the user has stopped the generation
Stopped == stopInfo.at # "none"

\* C22: once the user has stopped the generation the assistant message carries
\* the user-terminated marker and keeps it: no later callback of the cancelled
\* request puts the message back into the receiving or the pending state
C22_StaysTerminated ==
  Stopped =>
    /\ uiMsg.status \notin {"receiving", "pending"}
    /\ uiMsg = TerminationMessage

\* the tool that was in flight when the user stopped has returned, and its
\* progress callback has put the message back into the receiving state
C22_BackToReceiving ==
  /\ stopInfo.at = "exec"
  /\ dbMsg = TerminationMessage
  /\ uiMsg.status = "receiving"
  /\ inFlight = {}

IdsOf(list) == [k \in DOMAIN list |-> list[k].id]

\* C26: the toolCallResults handed to the caller's onComplete hold exactly one
\* entry per tool call the driver ran through handleToolCall, at every level
\* of the request, in the order the calls were run: earlier levels first and
\* the order of the list within a level
C26_OneEntryPerExecutedCall ==
  \A n \in DOMAIN completed :
    /\ IdsOf(completed[n].toolCallResults) = IdsOf(callLog)
    /\ \A k \in 1..(Len(callLog) - 1) :
         \/ callLog[k].depth < callLog[k + 1].depth
         \/ callLog[k].depth = callLog[k + 1].depth /\ callLog[k].index < callLog[k + 1].index

\* a request completed after two calls at the first level, with both entries
C26_Witness ==
  /\ Len(completed) = 1
  /\ depth = 2
  /\ Len(callLog) = 2
  /\ Len(execLog) = 2
  /\ Len(completed[1].toolCallResults) = 2
  /\ completed[1].toolCallResults[1].id = <<"call", 1, 0>>
  /\ completed[1].toolCallResults[2].id = <<"call", 1, 1>>

\* C29: the context is truncated once per request, before its first level: at
\* a follow-up level the list sent to the adapter is the list of the previous
\* level, unchanged, followed by the assistant turn of that level and then
\* only tool turns of its tool calls
C29_TruncatedOncePerRequest ==
  [][/\ messagesToSend' # messagesToSend => pc = "idle"
     /\ depth' # depth =>
          /\ depth' = depth + 1
          /\ messagesToSend' = messagesToSend
          /\ adapterCalls' = adapterCalls + 1
          /\ Len(messages') > Len(messages)
          /\ SubSeq(messages', 1, Len(messages)) = messages
          /\ messages'[Len(messages) + 1] = AssistantTurn(content, currentToolCalls)
          /\ \A k \in (Len(messages) + 2)..Len(messages') :
               /\ messages'[k].role = "tool"
               /\ messages'[k].tool_call_id \in {currentToolCalls[j].id : j \in DOMAIN currentToolCalls}]_vars

\* the second level was sent the user turn, the assistant turn with two tool
\* calls and their two tool turns
C29_Witness ==
  /\ depth = 2
  /\ pc = "fetch"
  /\ Len(messages) = 4
  /\ messages[1] = UserTurn
  /\ messages[2].role = "assistant"
  /\ Len(messages[2].tool_calls) = 2
  /\ messages[3].role = "tool"
  /\ messages[4].role = "tool"
  /\ messagesToSend # <<>>

\* the notifications about a tool call: that it is running, and how it ended
AboutCall(list, id, kinds) ==
  {n \in DOMAIN list : list[n].type = "progress" /\ list[n].kind \in kinds /\ list[n].id = id}

RunningOf(id) == AboutCall(notifications, id, {"running"})

TerminalOf(id) == AboutCall(notifications, id, {"success", "error"})

\* the notifications a step emits
Emitted == SubSeq(notifications', Len(notifications) + 1, Len(notifications'))

Invoked == {execLog[k].id : k \in DOMAIN execLog}

\* C30: for every invocation of the executor, the step that invokes it emits
\* "running" for the tool call and nothing was notified about the call before;
\* the step in which the executor returns emits exactly one "success" or
\* "error" for it; and no other step emits a notification about the call
C30_RunningThenOneTerminal ==
  [][/\ execLog' # execLog =>
          /\ Len(execLog') = Len(execLog) + 1
          /\ inFlight' = inFlight \cup {execLog'[Len(execLog')].id}
          /\ execLog'[Len(execLog')].id \notin inFlight
          /\ AboutCall(notifications, execLog'[Len(execLog')].id, {"running", "success", "error"}) = {}
          /\ Emitted = <<Progress("running", execLog'[Len(execLog')].id)>>
     /\ \A id \in inFlight \ inFlight' :
          /\ id \in Invoked
          /\ Cardinality(AboutCall(Emitted, id, {"success", "error"})) = 1
          /\ AboutCall(Emitted, id, {"running"}) = {}
     /\ \A id \in Invoked :
          id \notin inFlight \ inFlight'
            => AboutCall(Emitted, id, {"running", "success", "error"}) = {}]_vars

\* an executor that failed was announced as running and then reported once, as error
C30_Witness ==
  /\ Len(execLog) = 1
  /\ inFlight = {}
  /\ RunningOf(execLog[1].id) # {}
  /\ \E t \in TerminalOf(execLog[1].id) : notifications[t].kind = "error"

\* ---- context truncation, under ContextSpec
\* handleSendMessage has prepared the list for the provider
Prepared == pc # "idle"

\* the stored messages whose content is not empty
ValidStored == {allMessages[k] : k \in {j \in DOMAIN allMessages : HasMainContent(allMessages[j])}}

\* the most recent valid message, and the most recent user turn
NewestOf(stored) == CHOOSE m \in stored : \A other \in stored : other.createdAt <= m.createdAt

UserTurns == {m \in ValidStored : m.role = "user"}

\* the history the session holds, as the kinds of its messages in the order of creation
ChronologicalKinds(kinds) == allMessages \in {History(kinds), Reverse(History(kinds))}

\* C12: whenever the chronologically last valid message of the history is a user
\* turn, the list parseNeedSendMessage returns ends with that user turn,
\* whatever the context length, unlimited included
C12_EndsWithNewestUserTurn ==
  (Prepared /\ ValidStored # {} /\ NewestOf(ValidStored).role = "user")
    => /\ Len(messagesToSend) > 0
       /\ messagesToSend[Len(messagesToSend)] = SentTurn(NewestOf(ValidStored))

\* the list ends with an older user turn than the one the user has just sent
C12_EndsWithOlderUserTurn ==
  /\ Prepared
  /\ ChronologicalKinds(<<"U", "P", "U">>)
  /\ contextLength = -1
  /\ messagesToSend = <<[role |-> "user", content |-> 1]>>

\* C13: with a finite context length N >= 1 the returned list has at most N
\* turns and starts with a user turn
C13_AtMostLimitTurns ==
  (Prepared /\ contextLength >= 1)
    => /\ Len(messagesToSend) <= contextLength
       /\ Len(messagesToSend) > 0 => messagesToSend[1].role = "user"

\* a list of three turns under a context length of two
C13_OverLimit ==
  /\ Prepared
  /\ ChronologicalKinds(<<"U", "A", "U", "A", "U">>)
  /\ contextLength = 2
  /\ Len(messagesToSend) = 3

\* C14: a non-empty returned list starts with a user turn, ends with a user turn
\* and strictly alternates between user and assistant turns
C14_StrictAlternation ==
  (Prepared /\ Len(messagesToSend) > 0)
    => /\ messagesToSend[1].role = "user"
       /\ messagesToSend[Len(messagesToSend)].role = "user"
       /\ \A k \in 1..(Len(messagesToSend) - 1) :
            messagesToSend[k].role = OtherRole(messagesToSend[k + 1].role)

\* a list the final check had to complete with a user turn
C14_Witness ==
  /\ Prepared
  /\ ChronologicalKinds(<<"U", "A", "U", "A", "U">>)
  /\ contextLength = 2
  /\ Len(messagesToSend) = 3
  /\ messagesToSend[2].role = "assistant"
  /\ messagesToSend[3].role = "user"

\* the message stored just before m, among all messages and among those with content
Before(m, stored) == {b \in stored : b.createdAt < m.createdAt}

AllStored == {allMessages[k] : k \in DOMAIN allMessages}

PrecedingUserTurns(m) ==
  {b \in {NewestOf(Before(m, stored)) : stored \in {st \in {AllStored, ValidStored} : Before(m, st) # {}}} :
     b.role = "user"}

Sent == {messagesToSend[k] : k \in DOMAIN messagesToSend}

\* C15: the returned list holds no assistant turn of status error and not the
\* user turn immediately before such a turn; the history U1 A1 U2 A2(error) U3
\* with context length 10 or unlimited yields exactly U1 A1 U3
C15_ErrorPairDropped ==
  Prepared =>
    /\ \A m \in ValidStored :
         (m.role = "assistant" /\ m.status = "error")
           => /\ SentTurn(m) \notin Sent
              /\ \A b \in PrecedingUserTurns(m) : SentTurn(b) \notin Sent
    /\ (ChronologicalKinds(<<"U", "A", "U", "E", "U">>) /\ contextLength \in {10, -1})
         => messagesToSend = <<[role |-> "user", content |-> 1],
                               [role |-> "assistant", content |-> 2],
                               [role |-> "user", content |-> 5]>>

C15_Witness ==
  /\ Prepared
  /\ ChronologicalKinds(<<"U", "A", "U", "E", "U">>)
  /\ contextLength = 10
  /\ Len(messagesToSend) = 3
  /\ messagesToSend[3] = [role |-> "user", content |-> 5]

\* C16: with a context length of exactly 1 the returned list is the single most
\* recent user turn of the history; U1 A1 U2 A2 U3 yields U3
C16_LimitOne ==
  (Prepared /\ contextLength = 1)
    => /\ UserTurns # {}
       /\ messagesToSend = <<SentTurn(NewestOf(UserTurns))>>
       /\ ChronologicalKinds(<<"U", "A", "U", "A", "U">>)
            => messagesToSend = <<[role |-> "user", content |-> 5]>>

C16_Witness ==
  /\ Prepared
  /\ contextLength = 1
  /\ ChronologicalKinds(<<"U", "A", "U", "A", "U">>)
  /\ messagesToSend = <<[role |-> "user", content |-> 5]>>

\* the valid assistant messages stored between two turns, by their contents
AssistantsBetween(earlier, later) ==
  {m \in ValidStored : m.role = "assistant" /\ earlier < m.createdAt /\ m.createdAt < later}

\* C24: the returned list is a subsequence of the chronologically ordered
\* history: its turns are in the order of creation, none appears twice, and
\* every assistant turn directly follows the user turn it was paired with
C24_ChronologicalSubsequence ==
  Prepared =>
    /\ \A k \in DOMAIN messagesToSend : \E m \in ValidStored : SentTurn(m) = messagesToSend[k]
    /\ \A k \in 1..(Len(messagesToSend) - 1) :
         messagesToSend[k].content < messagesToSend[k + 1].content
    /\ \A k \in DOMAIN messagesToSend :
         messagesToSend[k].role = "assistant"
           => /\ k > 1
              /\ messagesToSend[k - 1].role = "user"
              /\ messagesToSend[k - 1].content < messagesToSend[k].content
              /\ AssistantsBetween(messagesToSend[k - 1].content, messagesToSend[k].content) = {}

\* the newest user turn is sent twice, once before an older assistant turn
C24_TurnSentTwice ==
  /\ Prepared
  /\ ChronologicalKinds(<<"U", "A", "U", "A", "U">>)
  /\ contextLength = 2
  /\ messagesToSend = <<[role |-> "user", content |-> 5],
                        [role |-> "assistant", content |-> 4],
                        [role |-> "user", content |-> 5]>>


\* ---- tool-call deltas, under AssemblerSpec
\* the deltas received for an index, in arrival order
ReceivedFor(index) == SelectSeq(received, LAMBDA delta : delta.index = index)

\* the concatenation of the argument fragments of the deltas, in order
RECURSIVE Fragments(_)
Fragments(deltas) ==
  IF Len(deltas) = 0 THEN <<>>
  ELSE Fragments(SubSeq(deltas, 1, Len(deltas) - 1)) \o deltas[Len(deltas)].arguments

NamesFor(index) ==
  {ReceivedFor(index)[k].name : k \in DOMAIN ReceivedFor(index)} \ {NoField}

\* C17: the assembled list holds at most one tool call per index, none for an
\* index that received no delta; its arguments are the fragments received for the
\* index, concatenated in arrival order, and its name is the name received for
\* it; name foo, then the fragments {"x": and 1} on index 0 yield one tool call
\* named foo with the arguments {"x":1}
C17_AssembledInOrder ==
  /\ \A j, k \in DOMAIN currentToolCalls :
       currentToolCalls[j].index = currentToolCalls[k].index => j = k
  /\ frames # <<>> \/ received # <<>> =>
       {currentToolCalls[k].index : k \in DOMAIN currentToolCalls}
         = {received[k].index : k \in DOMAIN received}
  /\ \A k \in DOMAIN currentToolCalls :
       received # <<>> =>
         /\ currentToolCalls[k].arguments = Fragments(ReceivedFor(currentToolCalls[k].index))
         /\ NamesFor(currentToolCalls[k].index) = {} => currentToolCalls[k].name = NoField
         /\ \A name \in NamesFor(currentToolCalls[k].index) :
              NamesFor(currentToolCalls[k].index) = {name} => currentToolCalls[k].name = name
  /\ (frames = <<>> /\ received = <<Delta(0, <<"call", 0>>, <<"function">>, Foo, NoField),
                                    Delta(0, NoField, NoField, NoField, FragmentOpen),
                                    Delta(0, NoField, NoField, NoField, FragmentClose)>>)
       => /\ Len(currentToolCalls) = 1
          /\ currentToolCalls[1].name = Foo
          /\ currentToolCalls[1].arguments = <<"{", Q, "x", Q, ":", "1", "}">>

C17_Witness ==
  /\ frames = <<>>
  /\ received = <<Delta(0, <<"call", 0>>, <<"function">>, Foo, NoField),
                  Delta(0, NoField, NoField, NoField, FragmentOpen),
                  Delta(0, NoField, NoField, NoField, FragmentClose)>>
  /\ Len(currentToolCalls) = 1
  /\ JsonParse(currentToolCalls[1].arguments).ok


\* ---- the repair of tool arguments, under RepairSpec
\* C19: for an arguments text that is valid JSON, parseMCPToolParams returns the
\* value a direct JSON.parse of the text returns
C19_ValidJsonUnchanged ==
  \A k \in DOMAIN execLog :
    JsonParse(execLog[k].arguments).ok
      => execLog[k].parameters = JsonParse(execLog[k].arguments).v

\* the executor is given {} for the valid text {"a":"\""}
C19_ValueLost ==
  \E k \in DOMAIN execLog :
    /\ execLog[k].arguments = <<"{", Q, "a", Q, ":", Q, BS, Q, Q, "}">>
    /\ JsonParse(execLog[k].arguments).v = [t |-> "obj", v |-> <<<<<<"a">>, [t |-> "str", v |-> <<Q>>]>>>>]
    /\ execLog[k].parameters = EmptyObject

\* C20: for the text {\"a\":\"b\"}"} parseMCPToolParams returns the object
\* whose member a is the string b
C20_StrayEndRepaired ==
  \A k \in DOMAIN execLog :
    execLog[k].arguments = EscapedStrayEnd
      => execLog[k].parameters = [t |-> "obj", v |-> <<<<<<"a">>, [t |-> "str", v |-> <<"b">>]>>>>]

\* the executor is given {} for it
C20_DefaultReturned ==
  \E k \in DOMAIN execLog :
    /\ execLog[k].arguments = EscapedStrayEnd
    /\ execLog[k].parameters = EmptyObject

\* ------------------------------------------------------------------ the stream reader, under StreamSpec
RECURSIVE Concat(_)
Concat(parts) == IF Len(parts) = 0 THEN <<>> ELSE Head(parts) \o Concat(Tail(parts))

NothingRead == [content |-> <<>>, toolCalls |-> <<>>, updates |-> 0]

\* the state accumulated from the body when it arrives in a single read
FromWholeBody == ProcessChunk(NothingRead, Concat(chunks))

BodyRead == pc = "read" /\ nextChunk > Len(chunks)

\* C23: once the whole body is read, the accumulated content and tool-call
\* arguments are those of the body's frames, however the body was divided
\* into chunks
C23_ChunkingIndependent ==
  BodyRead => /\ content = FromWholeBody.content
              /\ currentToolCalls = FromWholeBody.toolCalls

\* C23: a body of one content frame, cut inside the frame, is read to its end
\* with no content accumulated
C23_SplitFrameLost ==
  /\ BodyRead
  /\ Len(chunks) = 2
  /\ Concat(chunks) = BodyOf(<<ContentFrame>>)
  /\ content = <<>>

\* the lines of a chunk that are data lines with a JSON payload
WellFormed(line) ==
  StartsWith(line, DataPrefix) /\ JsonParse(SubSeq(line, Len(DataPrefix) + 1, Len(line))).ok

\* what the lines carry under a key, in the order of the lines
RECURSIVE Carried(_, _)
Carried(lines, key) ==
  IF Len(lines) = 0 THEN <<>>
  ELSE MemberOf(JsonParse(SubSeq(Head(lines), Len(DataPrefix) + 1, Len(Head(lines)))).v, key)
         \o Carried(Tail(lines), key)

ArgumentsOf(toolCalls) == IF Len(toolCalls) = 0 THEN <<>> ELSE toolCalls[1].arguments

ChunkRead == pc = "read" /\ nextChunk' = nextChunk + 1

\* C25: a data line whose payload is not JSON is skipped: a read applies the
\* well-formed lines of its chunk, those before and those after the malformed
\* line, to the accumulated state and keeps reading, and the reading ends only
\* with the call of onComplete
C25_MalformedLineSkipped ==
  [][/\ ChunkRead =>
          /\ content' = content \o Carried(SelectSeq(Lines(chunks[nextChunk]), WellFormed), <<"c">>)
          /\ ArgumentsOf(currentToolCalls')
               = ArgumentsOf(currentToolCalls)
                   \o Carried(SelectSeq(Lines(chunks[nextChunk]), WellFormed), <<"g">>)
          /\ pc' = "read"
     /\ (pc = "read" /\ pc' # "read") => (handlerCalls' = handlerCalls + 1 /\ thrown' = thrown)]_vars

\* a body with a malformed line between two content frames is read in one chunk
\* and completed with the content of both frames
C25_Witness ==
  /\ pc = "done"
  /\ chunks = <<BodyOf(<<ContentFrame, MalformedFrame, ContentFrame>>)>>
  /\ Len(completed) = 1
  /\ completed[1].content = <<"a", "a">>

\* ------------------------------------------------------------------ the Anthropic stream, under AnthropicSpec
\* where the first control token of a fragment starts, 0 when it has none
ToolTokenStart(s) ==
  LET starts == {p \in 1..Len(s) :
                   /\ p + 5 <= Len(s)
                   /\ s[p] = "<"
                   /\ s[p + 1] \in Bars
                   /\ SubSeq(s, p + 2, p + 5) = <<"t", "o", "o", "l">>
                   /\ \E q \in (p + 6)..Len(s) : s[q] = ">"}
  IN IF starts = {} THEN 0 ELSE Min(starts)

\* the fragment with exactly its control token removed
WithoutToken(s) ==
  SubSeq(s, 1, ToolTokenStart(s) - 1) \o SubSeq(s, ToolTokenStart(s) + ToolTokenLen(s), Len(s))

ArgumentsFor(toolCalls, id) ==
  IF \E k \in DOMAIN toolCalls : toolCalls[k].id = id
  THEN toolCalls[CHOOSE k \in DOMAIN toolCalls : toolCalls[k].id = id].arguments
  ELSE <<>>

\* the frame being read carries a string fragment with a control token
TokenFragmentRead ==
  /\ pc = "read"
  /\ Len(frames) > 0
  /\ frames' = Tail(frames)
  /\ Head(frames).type = "tool_call_delta"
  /\ Head(frames).input.t = "str"
  /\ ToolTokenStart(Head(frames).input.v) > 0

\* C27: when a string fragment of tool input contains a control token, the
\* text appended to the arguments of the tool call is the fragment with
\* exactly that token removed, wherever the token is in the fragment
C27_ExactlyTokenRemoved ==
  [][TokenFragmentRead =>
       ArgumentsFor(currentToolCalls', Head(frames).tool_call_id)
         = ArgumentsFor(currentToolCalls, Head(frames).tool_call_id)
             \o WithoutToken(Head(frames).input.v)]_vars

\* the fragment a<|tool> has left its last character in the arguments and
\* not the a before the token
C27_TextBeforeTokenLost ==
  /\ pc = "read"
  /\ Len(received) = 1
  /\ received[1].input = [t |-> "str", v |-> <<"a", "<", "|", "t", "o", "o", "l", ">">>]
  /\ ArgumentsFor(currentToolCalls, ToolUse) = <<">">>

\* ------------------------------------------------------------------ the Gemini stream, under GeminiSpec
IsPrefix(p, s) == Len(p) <= Len(s) /\ SubSeq(s, 1, Len(p)) = p

\* every frame received carries the full candidate text so far
Cumulative(list) ==
  /\ \A k \in DOMAIN list : list[k].hasParts
  /\ \A k \in 1..(Len(list) - 1) : IsPrefix(list[k].text, list[k + 1].text)

\* C28: when each frame carries the full candidate text so far, the content
\* accumulated after every frame is the text of the latest frame
C28_ContentIsLatestText ==
  (pc = "read" /\ Len(received) > 0 /\ Cumulative(received))
    => content = received[Len(received)].text

\* the frames a and ab have accumulated aab
C28_TextDuplicated ==
  /\ pc = "read"
  /\ Len(received) = 2
  /\ received[1] = GeminiFrame(TRUE, <<"a">>)
  /\ received[2] = GeminiFrame(TRUE, <<"a", "b">>)
  /\ content = <<"a", "a", "b">>

============================================================================
